---- MODULE Spec2Model ----
(***************************************************************************)
(* Model of the indicator engine of src/src/stock_data/indicators.py:      *)
(* calculate_indicators and its window passes.                             *)
(*                                                                         *)
(* Numbers.  A float, raw field or derived value, is kept as the exact      *)
(* fraction <<n, d>> in lowest terms, d > 0, so "/" is the exact quotient  *)
(* (float rounding is not modelled); None is <<"None">>.  A trade_date is  *)
(* a string, kept as the sequence of its digits and compared as Python     *)
(* compares strings.  Positions are 0-based as in the code: At(s, i) is    *)
(* s[i].  A local that is not bound yet holds the empty list.              *)
(*                                                                         *)
(* The module also holds the background Task of                            *)
(* src/src/agents/bg_task_agent/task.py, with its own specification       *)
(* TaskSpec, and the TaskScheduler and AgentExecutor of src/src/scheduler, *)
(* with SchedulerSpec (configuration loads) and ExecutorSpec (executions).*)
(* Each specification runs one program and leaves the variables of the    *)
(* others at rest.                                                         *)
(***************************************************************************)
EXTENDS Integers, Sequences, FiniteSets, TLC

VARIABLES
    items,          \* the caller's list (argument)
    ma_windows_none, \* argument ma_windows: TRUE when it is None
    ma_windows,     \* argument ma_windows when it is a list; rebound at line 78
    vol_window,     \* argument
    atr_window,     \* argument
    atr_method,     \* argument
    prev_hl_window, \* argument
    pc,             \* position in calculate_indicators
    sorted_items, closes, highs, lows, vols,
    avg_vols, vol_ratios, mas,
    trs,            \* the True Range list, local to _calculate_atr
    atrs, prev_highs, prev_lows,
    enhanced_items, \* the list built by step 4 and returned
    raised,         \* the exception that left the function, "None" if none
    writer,         \* Task.writer, "None" if the task was built without one
    state,          \* Task.state
    result,         \* Task.result, "None" until set
    dispatched,     \* the messages handed to a writer, oldest first
    task_returned,  \* what the last call on the task returned or raised
    task_call,      \* the method of the last call on the task
    task_calls,     \* the number of calls made on the task
    config,         \* the configuration read by the last load, "None" if none
    _tasks,         \* TaskScheduler._tasks: name -> TaskRuntime
    jobs,           \* the jobs held by TaskScheduler._scheduler
    scheduler_call, \* the method of the last call on the scheduler
    scheduler_returned, \* what that call returned or raised
    records,        \* AgentExecutor.records: task name -> ExecutionRecord
    runs            \* the executions: one per job and one for trigger_task

vars == <<items, ma_windows_none, ma_windows, vol_window, atr_window, atr_method, prev_hl_window,
          pc, sorted_items, closes, highs, lows, vols, avg_vols, vol_ratios,
          mas, trs, atrs, prev_highs, prev_lows, enhanced_items, raised,
          writer, state, result, dispatched, task_returned, task_call,
          task_calls, config, _tasks, jobs, scheduler_call, scheduler_returned,
          records, runs>>

\* the variables of the TaskScheduler and of its AgentExecutor
scheduler_vars == <<config, _tasks, jobs, scheduler_call, scheduler_returned>>

executor_vars == <<records, runs>>

\* the variables of the Task
task_vars == <<writer, state, result, dispatched, task_returned, task_call,
          task_calls>>

\* ------------------------------------------------------------------ bounds

\* longest bar series of the exhaustive input families
MaxLen == 3

\* ------------------------------------------------------- Python primitives

\* the value None of an optional float
None == <<"None">>

\* what a "/" leaves in place of a value when it raises
ZeroDivision == <<"ZeroDivisionError">>

NoException == "None"

\* IndicatorsError("输入数据为空")
EmptyInputError == "IndicatorsError: empty input"

\* IndicatorsError("不支持的 ATR 方法: ...")
UnsupportedMethodError == "IndicatorsError: unsupported ATR method"

ZeroDivisionError == "ZeroDivisionError"

\* a call that returned v / a call that raised e
Returned(v) == [exc |-> NoException, val |-> v]

Raised(e) == [exc |-> e, val |-> <<>>]

Max2(a, b) == IF a >= b THEN a ELSE b

Min2(a, b) == IF a <= b THEN a ELSE b

Abs(a) == IF a < 0 THEN -a ELSE a

At(s, i) == s[i + 1]

\* one bound of a slice: a negative index counts from the end, then clamp
SliceIndex(n, k) == IF k < 0 THEN Max2(n + k, 0) ELSE Min2(k, n)

\* s[start:stop]
PySlice(s, start, stop) ==
    LET lo == SliceIndex(Len(s), start)
        hi == SliceIndex(Len(s), stop)
    IN  [k \in 1..Max2(hi - lo, 0) |-> s[lo + k]]

\* [x for x in s if x is not None]
NotNone(s) == SelectSeq(s, LAMBDA x : x # None)

RECURSIVE Gcd(_, _)
Gcd(a, b) == IF b = 0 THEN a ELSE Gcd(b, a % b)

\* the fraction n/d in lowest terms with a positive denominator (d # 0)
Frac(n, d) ==
    LET g == Gcd(Abs(n), Abs(d))
        s == IF d < 0 THEN -1 ELSE 1
    IN  <<(s * n) \div g, (s * d) \div g>>

\* the float of the integer k
Num(k) == <<k, 1>>

\* a + b, a - b, a * b, abs(a), a > b on floats
FAdd(a, b) == Frac(a[1] * b[2] + b[1] * a[2], a[2] * b[2])

\* sum(s) of a list of floats (0 for the empty list); the additions are exact,
\* so the two halves of the list are summed apart
RECURSIVE FSum(_)
FSum(s) ==
    IF s = <<>> THEN Num(0)
    ELSE IF Len(s) = 1 THEN s[1]
    ELSE LET half == Len(s) \div 2
         IN  FAdd(FSum(SubSeq(s, 1, half)), FSum(SubSeq(s, half + 1, Len(s))))

FSub(a, b) == Frac(a[1] * b[2] - b[1] * a[2], a[2] * b[2])

FMul(a, b) == Frac(a[1] * b[1], a[2] * b[2])

FAbs(a) == <<Abs(a[1]), a[2]>>

FGt(a, b) == a[1] * b[2] > b[1] * a[2]

FMax2(a, b) == IF FGt(b, a) THEN b ELSE a

FMin2(a, b) == IF FGt(a, b) THEN b ELSE a

\* a / b on floats: raises when b is zero
FDiv(a, b) == IF b[1] = 0 THEN ZeroDivision ELSE Frac(a[1] * b[2], a[2] * b[1])

\* max(s), min(s) of a non-empty list of floats
\* max(s) and min(s) of a non-empty list of floats, by halves
RECURSIVE FMax(_)
FMax(s) ==
    IF Len(s) = 1 THEN s[1]
    ELSE LET half == Len(s) \div 2
         IN  FMax2(FMax(SubSeq(s, 1, half)), FMax(SubSeq(s, half + 1, Len(s))))

RECURSIVE FMin(_)
FMin(s) ==
    IF Len(s) = 1 THEN s[1]
    ELSE LET half == Len(s) \div 2
         IN  FMin2(FMin(SubSeq(s, 1, half)), FMin(SubSeq(s, half + 1, Len(s))))

\* a list built element by element with "/" in it: the list, or the
\* ZeroDivisionError that stopped the loop
Built(s) ==
    IF \E j \in 1..Len(s) : s[j] = ZeroDivision
    THEN Raised(ZeroDivisionError)
    ELSE Returned(s)

\* a < b on strings
StrLt(a, b) ==
    \E k \in 1..(Min2(Len(a), Len(b)) + 1) :
        /\ \A j \in 1..(k - 1) : a[j] = b[j]
        /\ \/ k > Len(a) /\ k <= Len(b)
           \/ k <= Len(a) /\ k <= Len(b) /\ a[k] < b[k]

\* s[j] comes before s[k] in an ascending, stable sort on trade_date
SortsBefore(s, j, k) ==
    \/ StrLt(s[j].trade_date, s[k].trade_date)
    \/ ~StrLt(s[k].trade_date, s[j].trade_date) /\ j < k

\* s[j] comes before s[k] in a stable sort with the comparison turned round
SortsBeforeDescending(s, j, k) ==
    \/ StrLt(s[k].trade_date, s[j].trade_date)
    \/ ~StrLt(s[j].trade_date, s[k].trade_date) /\ j < k

\* the positions of s kept when a later bar replaces an earlier bar of its date
LastOfDate(s) ==
    {k \in 1..Len(s) :
        \A j \in (k + 1)..Len(s) : s[j].trade_date # s[k].trade_date}

\* s[j] comes before s[k] in an ascending sort that turns equal dates round
SortsBeforeTiesReversed(s, j, k) ==
    \/ StrLt(s[j].trade_date, s[k].trade_date)
    \/ ~StrLt(s[k].trade_date, s[j].trade_date) /\ j > k

\* an ascending sort that is not stable: bars of one date come out reversed
SortedByDateTiesReversed(s) ==
    LET rank == [k \in 1..Len(s) |->
                    Cardinality({j \in 1..Len(s) :
                                    SortsBeforeTiesReversed(s, j, k)}) + 1]
    IN  [p \in 1..Len(s) |-> s[CHOOSE k \in 1..Len(s) : rank[k] = p]]

\* a sort that keeps one bar per trade_date (the later one replaces the earlier)
SortedByDateDedup(s) ==
    LET kept == LastOfDate(s)
        rank == [k \in kept |->
                    Cardinality({j \in kept : SortsBefore(s, j, k)}) + 1]
    IN  [p \in 1..Cardinality(kept) |-> s[CHOOSE k \in kept : rank[k] = p]]

\* a sort with the comparison turned round (descending)
SortedByDateDescending(s) ==
    LET rank == [k \in 1..Len(s) |->
                    Cardinality({j \in 1..Len(s) :
                                    SortsBeforeDescending(s, j, k)}) + 1]
    IN  [p \in 1..Len(s) |-> s[CHOOSE k \in 1..Len(s) : rank[k] = p]]

\* no sort at all: the bars stay in the caller's order
SortedByDateUnsorted(s) == s

\* the position that s[k] takes in the sorted list
RankByDate(s, k) == Cardinality({j \in 1..Len(s) : SortsBefore(s, j, k)}) + 1

\* sorted(items, key=lambda x: x.trade_date): ascending and stable
SortedByDate(s) ==
    LET rank == SubSeq([k \in 1..Len(s) |-> RankByDate(s, k)], 1, Len(s))
    IN  [p \in 1..Len(s) |-> s[CHOOSE k \in 1..Len(s) : rank[k] = p]]

\* [item.f for item in s]
Column(s, f) == [k \in 1..Len(s) |-> s[k][f]]

\* ------------------------------------------------------------ the passes

\* the mean taken without the "if window_vols" guard
AvgVolAtUnguarded(vols_, window, i) ==
    LET start == Max2(0, i - window + 1)
        window_vols == NotNone(PySlice(vols_, start, i + 1))
    IN  FDiv(FSum(window_vols), Num(Len(window_vols)))

\* the strict policy of the moving average used for the volume average
AvgVolAtFullWindow(vols_, window, i) ==
    LET start == Max2(0, i - window + 1)
        window_vols == NotNone(PySlice(vols_, start, i + 1))
    IN  IF i >= window - 1 /\ window_vols # <<>>
        THEN FDiv(FSum(window_vols), Num(Len(window_vols)))
        ELSE None

\* the body of the loop of _calculate_avg_vol at position i
AvgVolAt(vols_, window, i) ==
    LET start == Max2(0, i - window + 1)
        window_vols == NotNone(PySlice(vols_, start, i + 1))
    IN  IF window_vols # <<>>
        THEN FDiv(FSum(window_vols), Num(Len(window_vols)))
        ELSE None

_calculate_avg_vol(vols_, window) ==
    Built([k \in 1..Len(vols_) |-> AvgVolAt(vols_, window, k - 1)])

\* "avg_vol != 0" in place of "avg_vol > 0"
VolRatioOfNonZero(vol, avg_vol) ==
    IF vol # None /\ avg_vol # None /\ avg_vol # Num(0)
    THEN FDiv(vol, avg_vol)
    ELSE None

\* the body of the loop of _calculate_vol_ratio on one zipped pair
VolRatioOf(vol, avg_vol) ==
    IF vol # None /\ avg_vol # None /\ FGt(avg_vol, Num(0))
    THEN FDiv(vol, avg_vol)
    ELSE None

\* zip stops at the shorter list
_calculate_vol_ratio(vols_, avg_vols_) ==
    Built([k \in 1..Min2(Len(vols_), Len(avg_vols_)) |->
              VolRatioOf(vols_[k], avg_vols_[k])])

\* the partial policy of the volume average used for the moving average
MaAtPartial(prices, window, i) ==
    IF i < window - 1
    THEN None
    ELSE LET window_prices == NotNone(PySlice(prices, i - window + 1, i + 1))
         IN  IF window_prices # <<>>
             THEN FDiv(FSum(window_prices), Num(Len(window_prices)))
             ELSE None

\* the body of the loop of _calculate_ma at position i
MaAt(prices, window, i) ==
    IF i < window - 1
    THEN None
    ELSE LET window_prices == NotNone(PySlice(prices, i - window + 1, i + 1))
         IN  IF Len(window_prices) = window
             THEN FDiv(FSum(window_prices), Num(window))
             ELSE None

_calculate_ma(prices, window) ==
    Built([k \in 1..Len(prices) |-> MaAt(prices, window, k - 1)])

\* a missing previous close making the True Range missing too
TrueRangeAtNullPrev(highs_, lows_, closes_, i) ==
    LET high == At(highs_, i)
        low == At(lows_, i)
        close == At(closes_, i)
    IN  IF high = None \/ low = None \/ close = None
        THEN None
        ELSE IF i = 0
             THEN FSub(high, low)
             ELSE IF At(closes_, i - 1) = None
                  THEN None
                  ELSE FMax(<<FSub(high, low),
                              FAbs(FSub(high, At(closes_, i - 1))),
                              FAbs(FSub(low, At(closes_, i - 1)))>>)

\* step 1 of _calculate_atr: the True Range at position i
TrueRangeAt(highs_, lows_, closes_, i) ==
    LET high == At(highs_, i)
        low == At(lows_, i)
        close == At(closes_, i)
        prev_close == IF i > 0 THEN At(closes_, i - 1) ELSE None
    IN  IF high = None \/ low = None \/ close = None
        THEN None
        ELSE IF prev_close = None
             THEN FSub(high, low)
             ELSE FMax(<<FSub(high, low),
                         FAbs(FSub(high, prev_close)),
                         FAbs(FSub(low, prev_close))>>)

TrueRanges(highs_, lows_, closes_) ==
    [k \in 1..Len(highs_) |-> TrueRangeAt(highs_, lows_, closes_, k - 1)]

\* the mean of the True Ranges present in the window, however few
AtrSmaAtPartial(trs_, window, i) ==
    IF i < window - 1
    THEN None
    ELSE LET window_trs == NotNone(PySlice(trs_, i - window + 1, i + 1))
         IN  IF Len(window_trs) > 0
             THEN FDiv(FSum(window_trs), Num(Len(window_trs)))
             ELSE None

\* the body of the loop of _calculate_atr_sma at position i
AtrSmaAt(trs_, window, i) ==
    IF i < window - 1
    THEN None
    ELSE LET window_trs == NotNone(PySlice(trs_, i - window + 1, i + 1))
         IN  IF Len(window_trs) = window
             THEN FDiv(FSum(window_trs), Num(window))
             ELSE None

_calculate_atr_sma(trs_, window) ==
    Built([k \in 1..Len(trs_) |-> AtrSmaAt(trs_, window, k - 1)])

\* the smoothing with the weights of an exponential moving average
WilderStepEmaWeights(trs_, window, i, atr_prev) ==
    IF i < window - 1
    THEN [out |-> None, atr_prev |-> atr_prev]
    ELSE IF i = window - 1
    THEN LET window_trs == NotNone(PySlice(trs_, 0, i + 1))
         IN  IF Len(window_trs) = window
             THEN LET seed == FDiv(FSum(window_trs), Num(window))
                  IN  [out |-> seed, atr_prev |-> seed]
             ELSE [out |-> None, atr_prev |-> atr_prev]
    ELSE LET tr == At(trs_, i)
         IN  IF tr # None /\ atr_prev # None
             THEN LET smoothed == FDiv(FAdd(FMul(atr_prev, Num(window - 1)),
                                            FMul(tr, Num(2))),
                                       Num(window + 1))
                  IN  [out |-> smoothed, atr_prev |-> smoothed]
             ELSE [out |-> None, atr_prev |-> None]

\* the accumulator kept over a missing True Range, so that the chain resumes
WilderStepNoReset(trs_, window, i, atr_prev) ==
    IF i < window - 1
    THEN [out |-> None, atr_prev |-> atr_prev]
    ELSE IF i = window - 1
    THEN LET window_trs == NotNone(PySlice(trs_, 0, i + 1))
         IN  IF Len(window_trs) = window
             THEN LET seed == FDiv(FSum(window_trs), Num(window))
                  IN  [out |-> seed, atr_prev |-> seed]
             ELSE [out |-> None, atr_prev |-> atr_prev]
    ELSE LET tr == At(trs_, i)
         IN  IF tr # None /\ atr_prev # None
             THEN LET smoothed == FDiv(FAdd(FMul(atr_prev, Num(window - 1)), tr),
                                       Num(window))
                  IN  [out |-> smoothed, atr_prev |-> smoothed]
             ELSE [out |-> None, atr_prev |-> atr_prev]

\* the chain seeded with the True Range of the seed position alone
WilderStepSeedLast(trs_, window, i, atr_prev) ==
    IF i < window - 1
    THEN [out |-> None, atr_prev |-> atr_prev]
    ELSE IF i = window - 1
    THEN LET window_trs == NotNone(PySlice(trs_, 0, i + 1))
         IN  IF Len(window_trs) = window
             THEN [out |-> At(trs_, i), atr_prev |-> At(trs_, i)]
             ELSE [out |-> None, atr_prev |-> atr_prev]
    ELSE LET tr == At(trs_, i)
         IN  IF tr # None /\ atr_prev # None
             THEN LET smoothed == FDiv(FAdd(FMul(atr_prev, Num(window - 1)), tr),
                                       Num(window))
                  IN  [out |-> smoothed, atr_prev |-> smoothed]
             ELSE [out |-> None, atr_prev |-> None]

\* one pass of the loop of _calculate_atr_wilder at position i: the value
\* appended and the atr_prev carried to the next pass
WilderStep(trs_, window, i, atr_prev) ==
    IF i < window - 1
    THEN [out |-> None, atr_prev |-> atr_prev]
    ELSE IF i = window - 1
    THEN LET window_trs == NotNone(PySlice(trs_, 0, i + 1))
         IN  IF Len(window_trs) = window
             THEN LET seed == FDiv(FSum(window_trs), Num(window))
                  IN  [out |-> seed, atr_prev |-> seed]
             ELSE [out |-> None, atr_prev |-> atr_prev]
    ELSE LET tr == At(trs_, i)
         IN  IF tr # None /\ atr_prev # None
             THEN LET smoothed == FDiv(FAdd(FMul(atr_prev, Num(window - 1)), tr),
                                       Num(window))
                  IN  [out |-> smoothed, atr_prev |-> smoothed]
             ELSE [out |-> None, atr_prev |-> None]

\* the loop of _calculate_atr_wilder from position i on
RECURSIVE WilderLoop(_, _, _, _, _)
WilderLoop(trs_, window, i, atr_prev, result_) ==
    IF i >= Len(trs_) THEN result_
    ELSE LET step == WilderStep(trs_, window, i, atr_prev)
         IN  IF step.out = ZeroDivision
             THEN Append(result_, ZeroDivision)
             ELSE WilderLoop(trs_, window, i + 1, step.atr_prev,
                             Append(result_, step.out))

_calculate_atr_wilder(trs_, window) ==
    Built(WilderLoop(trs_, window, 0, None, <<>>))

\* an unknown method falling back to the default method
AtrByMethodFallback(trs_, window, method) ==
    IF method = "wilder" THEN _calculate_atr_wilder(trs_, window)
    ELSE _calculate_atr_sma(trs_, window)

\* step 2 of _calculate_atr: the dispatch on the method
AtrByMethod(trs_, window, method) ==
    IF method = "sma" THEN _calculate_atr_sma(trs_, window)
    ELSE IF method = "wilder" THEN _calculate_atr_wilder(trs_, window)
    ELSE Raised(UnsupportedMethodError)

_calculate_atr(highs_, lows_, closes_, window, method) ==
    AtrByMethod(TrueRanges(highs_, lows_, closes_), window, method)

\* the window taken as the trailing window that ends on the current bar
PrevHighLowAtInclusive(prices, window, is_high, i) ==
    IF i = 0
    THEN None
    ELSE LET start == Max2(0, i - window + 1)
             window_prices == NotNone(PySlice(prices, start, i + 1))
         IN  IF window_prices # <<>>
             THEN IF is_high THEN FMax(window_prices) ELSE FMin(window_prices)
             ELSE None

\* the body of the loop of _calculate_prev_high_low at position i
PrevHighLowAt(prices, window, is_high, i) ==
    IF i = 0
    THEN None
    ELSE LET start == Max2(0, i - window)
             window_prices == NotNone(PySlice(prices, start, i))
         IN  IF window_prices # <<>>
             THEN IF is_high THEN FMax(window_prices) ELSE FMin(window_prices)
             ELSE None

_calculate_prev_high_low(prices, window, is_high) ==
    [k \in 1..Len(prices) |-> PrevHighLowAt(prices, window, is_high, k - 1)]

\* ------------------------------------------------------------ the records

\* TushareDailyItem(ts_code=..., trade_date=d, high=h, low=l, close=c, vol=v);
\* the fields that are not given take their default, None
TushareDailyItem(d, h, l, c, v) ==
    [ts_code |-> "000001.SZ", trade_date |-> d, open |-> None, high |-> h,
     low |-> l, close |-> c, pre_close |-> None, change |-> None,
     pct_chg |-> None, vol |-> v, amount |-> None]

\* EnhancedDailyItem(**item.model_dump(), avg_vol_20=..., ...): the fields of
\* the bar and the keyword arguments kw
EnhancedDailyItem(item, kw) == kw @@ item

\* set(ma_windows)
Windows(ws) == {ws[k] : k \in 1..Len(ws)}

\* {window: _calculate_ma(closes, window) for window in ma_windows}
MasOf(closes_, ws) ==
    IF \E k \in 1..Len(ws) : _calculate_ma(closes_, ws[k]).exc # NoException
    THEN Raised(ZeroDivisionError)
    ELSE Returned([w \in Windows(ws) |-> _calculate_ma(closes_, w).val])

\* a window that is not configured answered with a configured one
MaValueAnyWindow(mas_, n, i) ==
    IF n \in DOMAIN mas_ THEN At(mas_[n], i)
    ELSE IF DOMAIN mas_ # {} THEN At(mas_[CHOOSE w \in DOMAIN mas_ : TRUE], i)
    ELSE None

\* mas.get(n, [None] * len(sorted_items))[i] if n in mas else None
MaValue(mas_, n, i) == IF n \in DOMAIN mas_ THEN At(mas_[n], i) ELSE None

\* the derived values paired with the bars from the other end of the lists
AssembledReversed(sorted_, avg_vols_, vol_ratios_, mas_, atrs_, prev_highs_, prev_lows_) ==
    [k \in 1..Len(sorted_) |->
        LET r == Len(sorted_) + 1 - k
        IN  EnhancedDailyItem(sorted_[k],
                [avg_vol_20 |-> avg_vols_[r],
                 vol_ratio_20 |-> vol_ratios_[r],
                 ma20 |-> MaValue(mas_, 20, r - 1),
                 ma60 |-> MaValue(mas_, 60, r - 1),
                 atr14 |-> atrs_[r],
                 prev_high_20 |-> prev_highs_[r],
                 prev_low_20 |-> prev_lows_[r]])]

\* the loop of step 4 of calculate_indicators
Assembled(sorted_, avg_vols_, vol_ratios_, mas_, atrs_, prev_highs_, prev_lows_) ==
    [k \in 1..Len(sorted_) |->
        EnhancedDailyItem(sorted_[k],
            [avg_vol_20 |-> avg_vols_[k],
             vol_ratio_20 |-> vol_ratios_[k],
             ma20 |-> MaValue(mas_, 20, k - 1),
             ma60 |-> MaValue(mas_, 60, k - 1),
             atr14 |-> atrs_[k],
             prev_high_20 |-> prev_highs_[k],
             prev_low_20 |-> prev_lows_[k]])]

\* the whole call as one function of its arguments: what it returns or raises
calculate_indicators(items_, ws_none, ws_, vw, aw, am, pw) ==
    IF items_ = <<>> THEN Raised(EmptyInputError)
    ELSE
    LET ws == IF ws_none THEN <<20, 60>> ELSE ws_
        sorted_ == SortedByDate(items_)
        closes_ == Column(sorted_, "close")
        highs_ == Column(sorted_, "high")
        lows_ == Column(sorted_, "low")
        vols_ == Column(sorted_, "vol")
        avg_ == _calculate_avg_vol(vols_, vw)
        ratio_ == _calculate_vol_ratio(vols_, avg_.val)
        mas_ == MasOf(closes_, ws)
        atr_ == _calculate_atr(highs_, lows_, closes_, aw, am)
    IN  IF avg_.exc # NoException THEN avg_
        ELSE IF ratio_.exc # NoException THEN ratio_
        ELSE IF mas_.exc # NoException THEN mas_
        ELSE IF atr_.exc # NoException THEN atr_
        ELSE Returned(Assembled(sorted_, avg_.val, ratio_.val, mas_.val, atr_.val,
                                _calculate_prev_high_low(highs_, pw, TRUE),
                                _calculate_prev_high_low(lows_, pw, FALSE)))

\* ------------------------------------------------------------- the inputs

\* f"202401{k:02d}"
Day(k) == <<2, 0, 2, 4, 0, 1, k \div 10, k % 10>>

\* bar i of the fixture sample_daily_data of tests/test_indicators.py, prices
\* in units of 0.1
SampleBar(i, d) ==
    LET close == 100 + (i % 5) * 5
        vol == 10000 + (i % 3) * 5000
    IN  [ts_code |-> "000001.SZ", trade_date |-> d, open |-> Num(close - 1),
         high |-> Num(close + 3), low |-> Num(close - 3), close |-> Num(close),
         pre_close |-> Num(close - 2), change |-> Num(2), pct_chg |-> Num(20),
         vol |-> Num(vol), amount |-> Frac(vol * close, 100)]

sample_daily_data(n) == [k \in 1..n |-> SampleBar(k - 1, Day(k))]

Reversed(s) == [k \in 1..Len(s) |-> s[Len(s) + 1 - k]]

\* the arguments of one call
Call(items_, ws, vw, aw, am, pw) ==
    [items |-> items_, ma_windows_none |-> FALSE, ma_windows |-> ws, vol_window |-> vw, atr_window |-> aw,
     atr_method |-> am, prev_hl_window |-> pw]

\* the defaults of the signature
\* ma_windows left out, or None
NoWindows(c) == [c EXCEPT !.ma_windows_none = TRUE, !.ma_windows = <<>>]

DefaultCall(items_) == NoWindows(Call(items_, <<>>, 20, 14, "sma", 20))

\* no Task has been built
NoTask ==
    /\ writer = "None"
    /\ state = "None"
    /\ result = "None"
    /\ dispatched = <<>>
    /\ task_returned = "None"
    /\ task_call = "None"
    /\ task_calls = 0

\* no TaskScheduler has been built
NoScheduler ==
    /\ config = "None"
    /\ _tasks = <<>>
    /\ jobs = {}
    /\ scheduler_call = "None"
    /\ scheduler_returned = "None"
    /\ records = <<>>
    /\ runs = <<>>

\* the call starts with the arguments c and nothing computed
Called(c) ==
    /\ items = c.items
    /\ ma_windows_none = c.ma_windows_none
    /\ ma_windows = c.ma_windows
    /\ vol_window = c.vol_window
    /\ atr_window = c.atr_window
    /\ atr_method = c.atr_method
    /\ prev_hl_window = c.prev_hl_window
    /\ pc = "start"
    /\ sorted_items = <<>>
    /\ closes = <<>>
    /\ highs = <<>>
    /\ lows = <<>>
    /\ vols = <<>>
    /\ avg_vols = <<>>
    /\ vol_ratios = <<>>
    /\ mas = <<>>
    /\ trs = <<>>
    /\ atrs = <<>>
    /\ prev_highs = <<>>
    /\ prev_lows = <<>>
    /\ enhanced_items = <<>>
    /\ raised = NoException
    /\ NoTask
    /\ NoScheduler

Methods == {"sma", "wilder", "ema"}

WindowValues == {-1, 0, 1, 2, 20}

MaWindowLists == {<<>>, <<0>>, <<-1>>, <<2>>, <<1, 2>>, <<2, 0>>}

\* every configuration, on an empty list and on a complete series
ConfigInputs ==
    \E it \in {<<>>, sample_daily_data(MaxLen)}, ws \in MaWindowLists,
       vw \in WindowValues, aw \in WindowValues, am \in Methods,
       pw \in WindowValues, ws_none \in BOOLEAN :
        LET c == Call(it, ws, vw, aw, am, pw)
        IN  Called(IF ws_none THEN NoWindows(c) ELSE c)

VolValues == {None, Num(-2), Num(0), Num(1), Num(3)}

\* every pattern of volumes, under every volume window
VolumeInputs ==
    \E n \in 1..MaxLen :
        \E vs \in [1..n -> VolValues], vw \in {-1, 0, 1, 2, 20} :
            Called(Call([k \in 1..n |->
                            TushareDailyItem(Day(k), Num(5), Num(1), Num(3), vs[k])],
                        <<2>>, vw, 2, "sma", 2))

CloseValues == {None, Num(1), Num(2), Num(4)}

\* every pattern of closes, under several lists of MA windows
CloseInputs ==
    \E n \in 1..MaxLen :
        \E cs \in [1..n -> CloseValues],
           ws \in {<<1>>, <<2>>, <<3>>, <<2, 3>>, <<-1, 4>>} :
            Called(Call([k \in 1..n |->
                            TushareDailyItem(Day(k), Num(5), Num(1), cs[k], Num(7))],
                        ws, 2, 2, "sma", 2))

\* every pattern of missing high, low, close and vol, under both ATR methods
MissingInputs ==
    \E n \in 1..(MaxLen - 1) :
        \E h \in [1..n -> {None, Num(5)}], l \in [1..n -> {None, Num(1)}],
           c \in [1..n -> {None, Num(3)}], v \in [1..n -> {None, Num(2)}],
           wm \in {<<1, "wilder">>, <<2, "sma">>} :
            Called(Call([k \in 1..n |->
                            TushareDailyItem(Day(k), h[k], l[k], c[k], v[k])],
                        <<wm[1]>>, wm[1], wm[1], wm[2], wm[1]))

\* well-formed dates and one malformed date
Dates == {Day(1), Day(2), Day(3), Day(4), <<2, 0, 2, 4, 0, 1, 1>>}

\* the sample bars under every assignment of dates, repeated dates included
DateInputs ==
    \E n \in 1..MaxLen :
        \E ds \in [1..n -> Dates], am \in {"sma", "wilder"} :
            Called(Call([k \in 1..n |-> SampleBar(k - 1, ds[k])],
                        <<2>>, 2, 2, am, 2))

\* the 30-bar fixture of the tests, as given and in descending order
SampleInputs ==
    \E it \in {sample_daily_data(30), Reversed(sample_daily_data(30))} :
        Called(DefaultCall(it))

\* every pattern of high, low and close on neighbouring bars: against a high
\* of 9 and a low of 4, a previous close of 2, 5 or 10 makes each of the
\* three distances the largest
TrueRangeInputs ==
    \E n \in 1..(MaxLen - 1) :
        \E h \in [1..n -> {None, Num(9)}], l \in [1..n -> {None, Num(4)}],
           c \in [1..n -> {None, Num(2), Num(5), Num(10)}] :
            Called(Call([k \in 1..n |->
                            TushareDailyItem(Day(k), h[k], l[k], c[k], Num(7))],
                        <<1>>, 1, 1, "sma", 1))

\* a bar without a high, a narrow bar and a wide bar
AtrBars ==
    {TushareDailyItem(Day(1), None, Num(1), Num(3), Num(7)),
     TushareDailyItem(Day(1), Num(5), Num(1), Num(3), Num(7)),
     TushareDailyItem(Day(1), Num(8), Num(1), Num(3), Num(7))}

\* series long enough for a gap to leave the window, under both ATR methods
AtrInputs ==
    \E n \in 1..(MaxLen + 2) :
        \E b \in [1..n -> AtrBars], aw \in {2, 3}, am \in {"sma", "wilder"} :
            Called(Call([k \in 1..n |-> [b[k] EXCEPT !.trade_date = Day(k)]],
                        <<2>>, 2, aw, am, 2))

HighLowValues ==
    {<<None, None>>, <<Num(5), Num(1)>>, <<Num(8), Num(2)>>, <<Num(6), None>>}

\* every pattern of highs and lows, under every prior-N window
HighLowInputs ==
    \E n \in 1..MaxLen :
        \E hl \in [1..n -> HighLowValues], pw \in {-1, 0, 1, 2, 20} :
            Called(Call([k \in 1..n |->
                            TushareDailyItem(Day(k), hl[k][1], hl[k][2], Num(3),
                                             Num(7))],
                        <<2>>, 2, 2, "sma", pw))

\* the windows of the tests on the fixture: the defaults, prev_hl_window=5 and
\* test_custom_windows, and lists of MA windows with and without 20 and 60
WindowConfigs ==
    {<<<<20, 60>>, 20, 14, 20>>, <<<<20, 60>>, 20, 14, 5>>,
     <<<<5, 10>>, 10, 7, 10>>, <<<<20>>, 20, 14, 20>>, <<<<60, 5>>, 20, 14, 20>>,
     <<<<>>, 5, 14, 20>>}

\* the fixture, and the fixture extended to 61 days, under those windows
WindowInputs ==
    \E n \in {30, 61}, w \in WindowConfigs :
        Called(Call(sample_daily_data(n), w[1], w[2], w[3], "sma", w[4]))

Init ==
    \/ ConfigInputs
    \/ VolumeInputs
    \/ CloseInputs
    \/ MissingInputs
    \/ DateInputs
    \/ SampleInputs
    \/ TrueRangeInputs
    \/ AtrInputs
    \/ HighLowInputs
    \/ WindowInputs

\* ------------------------------------------------- calculate_indicators

\* the ATR method validated before the empty-input check
CheckMethodThenEmpty ==
    /\ pc = "start"
    /\ IF atr_method \notin {"sma", "wilder"}
       THEN /\ pc' = "raised"
            /\ raised' = UnsupportedMethodError
            /\ UNCHANGED <<ma_windows_none, ma_windows>>
       ELSE IF items = <<>>
       THEN /\ pc' = "raised"
            /\ raised' = EmptyInputError
            /\ UNCHANGED <<ma_windows_none, ma_windows>>
       ELSE /\ pc' = "sort"
            /\ ma_windows' = IF ma_windows_none THEN <<20, 60>> ELSE ma_windows
            /\ ma_windows_none' = FALSE
            /\ UNCHANGED raised
    /\ UNCHANGED <<task_vars, scheduler_vars, executor_vars, items, trs, vol_window, atr_window, atr_method, prev_hl_window,
                   sorted_items, closes, highs, lows, vols, avg_vols, vol_ratios,
                   mas, atrs, prev_highs, prev_lows, enhanced_items>>

\* lines 74-78: the empty-input check and the default of ma_windows
CheckEmpty ==
    /\ pc = "start"
    /\ IF items = <<>>
       THEN /\ pc' = "raised"
            /\ raised' = EmptyInputError
            /\ UNCHANGED <<ma_windows_none, ma_windows>>
       ELSE /\ pc' = "sort"
            /\ ma_windows' = IF ma_windows_none THEN <<20, 60>> ELSE ma_windows
            /\ ma_windows_none' = FALSE
            /\ UNCHANGED raised
    /\ UNCHANGED <<task_vars, scheduler_vars, executor_vars, items, trs, vol_window, atr_window, atr_method, prev_hl_window,
                   sorted_items, closes, highs, lows, vols, avg_vols, vol_ratios,
                   mas, atrs, prev_highs, prev_lows, enhanced_items>>

\* the caller's list sorted in place (items.sort) instead of copied
SortInPlace ==
    /\ pc = "sort"
    /\ items' = SortedByDate(items)
    /\ sorted_items' = SortedByDate(items)
    /\ pc' = "extract"
    /\ UNCHANGED <<task_vars, scheduler_vars, executor_vars, trs, ma_windows_none, ma_windows, vol_window, atr_window,
                   atr_method, prev_hl_window, closes, highs, lows, vols,
                   avg_vols, vol_ratios, mas, atrs, prev_highs, prev_lows,
                   enhanced_items, raised>>

\* line 81
Sort ==
    /\ pc = "sort"
    /\ sorted_items' = SortedByDate(items)
    /\ pc' = "extract"
    /\ UNCHANGED <<task_vars, scheduler_vars, executor_vars, items, trs, ma_windows_none, ma_windows, vol_window, atr_window, atr_method,
                   prev_hl_window, closes, highs, lows, vols, avg_vols,
                   vol_ratios, mas, atrs, prev_highs, prev_lows, enhanced_items,
                   raised>>

\* lines 90-93
Extract ==
    /\ pc = "extract"
    /\ closes' = Column(sorted_items, "close")
    /\ highs' = Column(sorted_items, "high")
    /\ lows' = Column(sorted_items, "low")
    /\ vols' = Column(sorted_items, "vol")
    /\ pc' = "avg_vol"
    /\ UNCHANGED <<task_vars, scheduler_vars, executor_vars, items, trs, ma_windows_none, ma_windows, vol_window, atr_window, atr_method,
                   prev_hl_window, sorted_items, avg_vols, vol_ratios, mas, atrs,
                   prev_highs, prev_lows, enhanced_items, raised>>

\* the average volume taken over the 20 bars of the field's name
AvgVolFixed20 ==
    /\ pc = "avg_vol"
    /\ LET r == _calculate_avg_vol(vols, 20)
       IN  IF r.exc # NoException
           THEN pc' = "raised" /\ raised' = r.exc /\ UNCHANGED avg_vols
           ELSE pc' = "vol_ratio" /\ avg_vols' = r.val /\ UNCHANGED raised
    /\ UNCHANGED <<task_vars, scheduler_vars, executor_vars, items, trs, ma_windows_none, ma_windows, vol_window, atr_window,
                   atr_method, prev_hl_window, sorted_items, closes, highs, lows,
                   vols, vol_ratios, mas, atrs, prev_highs, prev_lows,
                   enhanced_items>>

\* line 96
AvgVol ==
    /\ pc = "avg_vol"
    /\ LET r == _calculate_avg_vol(vols, vol_window)
       IN  IF r.exc # NoException
           THEN pc' = "raised" /\ raised' = r.exc /\ UNCHANGED avg_vols
           ELSE pc' = "vol_ratio" /\ avg_vols' = r.val /\ UNCHANGED raised
    /\ UNCHANGED <<task_vars, scheduler_vars, executor_vars, items, trs, ma_windows_none, ma_windows, vol_window, atr_window, atr_method,
                   prev_hl_window, sorted_items, closes, highs, lows, vols,
                   vol_ratios, mas, atrs, prev_highs, prev_lows, enhanced_items>>

\* line 97
VolRatio ==
    /\ pc = "vol_ratio"
    /\ LET r == _calculate_vol_ratio(vols, avg_vols)
       IN  IF r.exc # NoException
           THEN pc' = "raised" /\ raised' = r.exc /\ UNCHANGED vol_ratios
           ELSE pc' = "mas" /\ vol_ratios' = r.val /\ UNCHANGED raised
    /\ UNCHANGED <<task_vars, scheduler_vars, executor_vars, items, trs, ma_windows_none, ma_windows, vol_window, atr_window, atr_method,
                   prev_hl_window, sorted_items, closes, highs, lows, vols,
                   avg_vols, mas, atrs, prev_highs, prev_lows, enhanced_items>>

\* line 98
Mas ==
    /\ pc = "mas"
    /\ LET r == MasOf(closes, ma_windows)
       IN  IF r.exc # NoException
           THEN pc' = "raised" /\ raised' = r.exc /\ UNCHANGED mas
           ELSE pc' = "tr" /\ mas' = r.val /\ UNCHANGED raised
    /\ UNCHANGED <<task_vars, scheduler_vars, executor_vars, items, trs, ma_windows_none, ma_windows, vol_window, atr_window, atr_method,
                   prev_hl_window, sorted_items, closes, highs, lows, vols,
                   avg_vols, vol_ratios, atrs, prev_highs, prev_lows,
                   enhanced_items>>

\* line 99, entering _calculate_atr: lines 224-243, the True Range loop
TrueRange ==
    /\ pc = "tr"
    /\ trs' = TrueRanges(highs, lows, closes)
    /\ pc' = "atr"
    /\ UNCHANGED <<task_vars, scheduler_vars, executor_vars, items, ma_windows_none, ma_windows, vol_window, atr_window,
                   atr_method, prev_hl_window, sorted_items, closes, highs, lows,
                   vols, avg_vols, vol_ratios, mas, atrs, prev_highs, prev_lows,
                   enhanced_items, raised>>

\* line 99, leaving _calculate_atr: lines 245-251, the ATR by the method
Atr ==
    /\ pc = "atr"
    /\ LET r == AtrByMethod(trs, atr_window, atr_method)
       IN  IF r.exc # NoException
           THEN pc' = "raised" /\ raised' = r.exc /\ UNCHANGED atrs
           ELSE pc' = "prev_high" /\ atrs' = r.val /\ UNCHANGED raised
    /\ UNCHANGED <<task_vars, scheduler_vars, executor_vars, items, trs, ma_windows_none, ma_windows, vol_window, atr_window, atr_method,
                   prev_hl_window, sorted_items, closes, highs, lows, vols,
                   avg_vols, vol_ratios, mas, prev_highs, prev_lows,
                   enhanced_items>>

\* line 100
PrevHigh ==
    /\ pc = "prev_high"
    /\ prev_highs' = _calculate_prev_high_low(highs, prev_hl_window, TRUE)
    /\ pc' = "prev_low"
    /\ UNCHANGED <<task_vars, scheduler_vars, executor_vars, items, trs, ma_windows_none, ma_windows, vol_window, atr_window, atr_method,
                   prev_hl_window, sorted_items, closes, highs, lows, vols,
                   avg_vols, vol_ratios, mas, atrs, prev_lows, enhanced_items,
                   raised>>

\* the prior low taken from the column of highs
PrevLowFromHighs ==
    /\ pc = "prev_low"
    /\ prev_lows' = _calculate_prev_high_low(highs, prev_hl_window, FALSE)
    /\ pc' = "assemble"
    /\ UNCHANGED <<task_vars, scheduler_vars, executor_vars, items, trs, ma_windows_none, ma_windows, vol_window, atr_window,
                   atr_method, prev_hl_window, sorted_items, closes, highs, lows,
                   vols, avg_vols, vol_ratios, mas, atrs, prev_highs,
                   enhanced_items, raised>>

\* line 101
PrevLow ==
    /\ pc = "prev_low"
    /\ prev_lows' = _calculate_prev_high_low(lows, prev_hl_window, FALSE)
    /\ pc' = "assemble"
    /\ UNCHANGED <<task_vars, scheduler_vars, executor_vars, items, trs, ma_windows_none, ma_windows, vol_window, atr_window, atr_method,
                   prev_hl_window, sorted_items, closes, highs, lows, vols,
                   avg_vols, vol_ratios, mas, atrs, prev_highs, enhanced_items,
                   raised>>

\* lines 104-123: the assembly loop and the return
Assemble ==
    /\ pc = "assemble"
    /\ enhanced_items' = Assembled(sorted_items, avg_vols, vol_ratios, mas, atrs,
                                   prev_highs, prev_lows)
    /\ pc' = "done"
    /\ UNCHANGED <<task_vars, scheduler_vars, executor_vars, items, trs, ma_windows_none, ma_windows, vol_window, atr_window, atr_method,
                   prev_hl_window, sorted_items, closes, highs, lows, vols,
                   avg_vols, vol_ratios, mas, atrs, prev_highs, prev_lows, raised>>

Next ==
    \/ CheckEmpty
    \/ Sort
    \/ Extract
    \/ AvgVol
    \/ VolRatio
    \/ Mas
    \/ TrueRange
    \/ Atr
    \/ PrevHigh
    \/ PrevLow
    \/ Assemble

Spec == Init /\ [][Next]_vars

\* two complete bars with different values and two bars with missing fields
FieldBars(d) ==
    {TushareDailyItem(d, Num(9), Num(4), Num(5), Num(7)),
     TushareDailyItem(d, Num(12), Num(6), Num(10), Num(3)),
     TushareDailyItem(d, None, Num(4), None, Num(7)),
     TushareDailyItem(d, Num(9), None, Num(2), None)}

\* lists of those bars in descending order of date, windows of two bars,
\* under both ATR methods
FieldInputs ==
    \E n \in 1..MaxLen, am \in {"sma", "wilder"} :
        \E b \in [1..n -> FieldBars(Day(1))] :
            Called(Call([k \in 1..n |-> [b[k] EXCEPT !.trade_date = Day(n + 1 - k)]],
                        <<2>>, 2, 2, am, 2))

\* calls on those lists
RawInit == FieldInputs

\* the same call, started from those inputs
RawSpec == RawInit /\ [][Next]_vars

\* ---------------------------------------------------------------- claims

\* where the call stands
Stages ==
    <<"start", "sort", "extract", "avg_vol", "vol_ratio", "mas", "tr", "atr",
      "prev_high", "prev_low", "assemble", "done">>

StageOf(p) == CHOOSE k \in 1..Len(Stages) : Stages[k] = p

\* the statement that binds the variable of stage p has run
Past(p) == pc # "raised" /\ StageOf(pc) > StageOf(p)

KnownMethod == atr_method \in {"sma", "wilder"}

PositiveWindows ==
    /\ \A k \in 1..Len(ma_windows) : ma_windows[k] > 0
    /\ vol_window > 0
    /\ atr_window > 0
    /\ prev_hl_window > 0

UniqueDates(s) ==
    \A j, k \in 1..Len(s) : j # k => s[j].trade_date # s[k].trade_date

DerivedFields ==
    {"avg_vol_20", "vol_ratio_20", "ma20", "ma60", "atr14", "prev_high_20",
     "prev_low_20"}

\* a float
IsNumber(x) == Len(x) = 2 /\ x[2] > 0

\* the sum of f over a finite set of positions
RECURSIVE SumOver(_, _)
SumOver(f, S) ==
    IF S = {} THEN Num(0)
    ELSE LET lo == CHOOSE x \in S : \A y \in S : x <= y
             hi == CHOOSE x \in S : \A y \in S : x >= y
             mid == (lo + hi) \div 2
         IN  IF lo = hi THEN At(f, lo)
             ELSE FAdd(SumOver(f, {j \in S : j <= mid}),
                       SumOver(f, {j \in S : j > mid}))

\* C1: a call with an empty list raises the empty-input error at once, whatever
\* the ATR method, with nothing sorted, computed or returned.
C1_EmptyInputRaisesFirst ==
    (items = <<>> /\ pc # "start") =>
        /\ pc = "raised"
        /\ raised = EmptyInputError
        /\ sorted_items = <<>> /\ avg_vols = <<>> /\ vol_ratios = <<>>
        /\ mas = <<>> /\ trs = <<>> /\ atrs = <<>> /\ prev_highs = <<>> /\ prev_lows = <<>>
        /\ enhanced_items = <<>>

C1_Witness ==
    items = <<>> /\ ~KnownMethod /\ pc = "raised" /\ raised = EmptyInputError

\* C2: on a non-empty list, an ATR method other than 'sma' and 'wilder' makes
\* the call raise: it never gets past the ATR pass, builds no output record
\* and never returns.
C2_UnsupportedMethodAborts ==
    (items # <<>> /\ ~KnownMethod) =>
        /\ pc \notin {"prev_high", "prev_low", "assemble", "done"}
        /\ enhanced_items = <<>>
        /\ pc = "raised" => raised # NoException

C2_Witness ==
    /\ items # <<>> /\ ~KnownMethod
    /\ pc = "raised" /\ raised = UnsupportedMethodError
    /\ avg_vols # <<>>

\* C3: with positive windows and a known ATR method, no pattern of missing
\* high, low, close or vol makes the call raise; the call returns and every
\* derived field is a number or None.
C3_MissingValuesNeverRaise ==
    (items # <<>> /\ PositiveWindows /\ KnownMethod) =>
        /\ pc # "raised" /\ raised = NoException
        /\ pc = "done" =>
            /\ Len(enhanced_items) = Len(items)
            /\ \A k \in 1..Len(enhanced_items) : \A f \in DerivedFields :
                   enhanced_items[k][f] = None \/ IsNumber(enhanced_items[k][f])

C3_Witness ==
    /\ pc = "done" /\ PositiveWindows /\ atr_method = "wilder"
    /\ \E k \in 1..Len(items) : items[k].high = None /\ items[k].vol = None
    /\ \E k \in 1..Len(items) : items[k].low = None /\ items[k].close = None
    /\ \A k \in 1..Len(enhanced_items) : enhanced_items[k].avg_vol_20 = None

\* C4: the call raises only on an empty list and on an unknown ATR method.
C4_RaisesOnlyOnEmptyOrMethod ==
    pc = "raised" => (items = <<>> \/ ~KnownMethod)

\* C5: the returned list has as many records as the caller's list.
C5_OutputLengthEqualsInput ==
    pc = "done" => Len(enhanced_items) = Len(items)

C5_Witness ==
    /\ pc = "done" /\ Len(items) >= 3
    /\ ~UniqueDates(items)

\* C6: the returned list is in ascending trade_date order, strictly when the
\* caller's trade dates are all different.
C6_OutputAscending ==
    pc = "done" =>
        \A k \in 1..(Len(enhanced_items) - 1) :
            /\ ~StrLt(enhanced_items[k + 1].trade_date, enhanced_items[k].trade_date)
            /\ UniqueDates(items) =>
                   StrLt(enhanced_items[k].trade_date, enhanced_items[k + 1].trade_date)

C6_Witness ==
    /\ pc = "done" /\ Len(items) >= 3
    /\ \A k \in 1..(Len(items) - 1) :
           StrLt(items[k + 1].trade_date, items[k].trade_date)

\* the list s taken in the order p
Permuted(s, p) == [k \in 1..Len(s) |-> s[p[k]]]

\* C7: with unique trade dates, the call returns the same list for every
\* order of the same bars (every permutation of a series of at most MaxLen
\* bars, and the reverse of any series).
C7_InputOrderIrrelevant ==
    (pc = "done" /\ UniqueDates(items)) =>
        /\ Len(items) <= MaxLen =>
               \A p \in Permutations(1..Len(items)) :
                   calculate_indicators(Permuted(items, p), FALSE, ma_windows,
                                        vol_window, atr_window, atr_method,
                                        prev_hl_window)
                       = Returned(enhanced_items)
        /\ calculate_indicators(Reversed(items), FALSE, ma_windows, vol_window,
                                atr_window, atr_method, prev_hl_window)
               = Returned(enhanced_items)

C7_Witness ==
    /\ pc = "done" /\ UniqueDates(items) /\ Len(items) >= 3
    /\ StrLt(items[2].trade_date, items[1].trade_date)
    /\ StrLt(items[2].trade_date, items[3].trade_date)
    /\ \E k \in 1..Len(enhanced_items) : enhanced_items[k].atr14 # None

\* the positions of the trailing window of width w at i that hold a value
TrailingPresent(col, w, i) ==
    {j \in 0..(Len(col) - 1) : j >= Max2(0, i - w + 1) /\ j <= i /\ At(col, j) # None}

\* C8: avg_vol[i] is the mean of the volumes present at max(0, i-W+1)..i and
\* None exactly when none is present; with no volume missing avg_vol[0] is
\* vol[0] and, for a series shorter than W, the last avg_vol is the mean of
\* all volumes.
C8_AvgVolTrailingPartialMean ==
    Past("avg_vol") =>
        /\ Len(avg_vols) = Len(vols)
        /\ \A i \in 0..(Len(vols) - 1) :
               LET present == TrailingPresent(vols, vol_window, i)
               IN  /\ (At(avg_vols, i) = None) <=> (present = {})
                   /\ present # {} =>
                          FMul(At(avg_vols, i), Num(Cardinality(present)))
                              = SumOver(vols, present)
        /\ (\A k \in 1..Len(vols) : vols[k] # None) =>
               /\ vol_window >= 1 => At(avg_vols, 0) = At(vols, 0)
               /\ Len(vols) < vol_window =>
                      FMul(avg_vols[Len(vols)], Num(Len(vols)))
                          = SumOver(vols, 0..(Len(vols) - 1))

C8_Witness ==
    /\ pc = "done" /\ vol_window = 2 /\ Len(vols) = 3
    /\ vols[1] = None /\ vols[2] = None /\ vols[3] # None
    /\ avg_vols[2] = None /\ avg_vols[3] = vols[3]

\* C9: vol_ratio[i] is vol[i] / avg_vol[i] when both are present and
\* avg_vol[i] > 0, and None otherwise.
C9_VolRatio ==
    Past("vol_ratio") =>
        /\ Len(vol_ratios) = Len(vols)
        /\ \A i \in 0..(Len(vols) - 1) :
               IF /\ At(vols, i) # None
                  /\ At(avg_vols, i) # None
                  /\ At(avg_vols, i)[1] > 0
               THEN /\ At(vol_ratios, i) # None
                    /\ FMul(At(vol_ratios, i), At(avg_vols, i)) = At(vols, i)
               ELSE At(vol_ratios, i) = None

C9_Witness ==
    /\ pc = "done"
    /\ \E i \in 1..Len(vols) :
           vols[i] # None /\ avg_vols[i] # None /\ avg_vols[i][1] < 0
    /\ \E i \in 1..Len(vols) :
           vols[i] # None /\ avg_vols[i] = Num(0)
    /\ \E i \in 1..Len(vols) :
           vol_ratios[i] # None /\ vol_ratios[i] # Num(1)

\* C10: for a window N >= 1, ma_N[i] is None for i < N-1; for i >= N-1 it is
\* the mean of the N closes at i-N+1..i when all are present and None when any
\* is missing.  With the 30 sample bars and the default windows, ma20 is set
\* from index 19 on only and ma60 on no row.
C10_MaStrictAllOrNothing ==
    /\ Past("mas") =>
           \A n \in DOMAIN mas : n >= 1 =>
               /\ Len(mas[n]) = Len(closes)
               /\ \A i \in 0..(Len(closes) - 1) :
                      IF i < n - 1
                      THEN At(mas[n], i) = None
                      ELSE IF \A j \in (i - n + 1)..i : At(closes, j) # None
                           THEN FMul(At(mas[n], i), Num(n))
                                    = SumOver(closes, (i - n + 1)..i)
                           ELSE At(mas[n], i) = None
    /\ (pc = "done" /\ Len(items) = 30 /\ ma_windows = <<20, 60>>
            /\ \A k \in 1..30 : items[k].close # None) =>
           \A i \in 0..29 :
               /\ (At(enhanced_items, i).ma20 # None) <=> (i >= 19)
               /\ At(enhanced_items, i).ma60 = None

C10_Witness ==
    /\ pc = "done" /\ 2 \in DOMAIN mas /\ Len(closes) = 3
    /\ closes[1] = None /\ closes[2] # None /\ closes[3] # None
    /\ mas[2][2] = None /\ mas[2][3] # None /\ mas[2][3] # closes[3]

C10_WitnessSample ==
    /\ pc = "done" /\ Len(items) = 30
    /\ At(enhanced_items, 19).ma20 # None

\* x is the largest member of the set S of floats
IsMaxOf(x, S) == x \in S /\ \A y \in S : ~FGt(y, x)

\* x is the smallest member of the set S of floats
IsMinOf(x, S) == x \in S /\ \A y \in S : ~FGt(x, y)

\* the three distances of the True Range of bar i against the close before it
TrDistances(i) ==
    {FSub(At(highs, i), At(lows, i)),
     FAbs(FSub(At(highs, i), At(closes, i - 1))),
     FAbs(FSub(At(lows, i), At(closes, i - 1)))}

BarComplete(i) ==
    At(highs, i) # None /\ At(lows, i) # None /\ At(closes, i) # None

\* C11 as stated: TR[i] is None when high[i], low[i] or close[i] is None,
\* high[0] - low[0] at i = 0, and at every other position the largest of
\* high[i]-low[i], |high[i]-close[i-1]| and |low[i]-close[i-1]|, which
\* needs close[i-1] to be a number.
C11_TrueRangeAsStated ==
    Past("tr") =>
        \A i \in 0..(Len(highs) - 1) :
            IF ~BarComplete(i) THEN At(trs, i) = None
            ELSE IF i = 0 THEN At(trs, i) = FSub(At(highs, 0), At(lows, 0))
            ELSE /\ At(closes, i - 1) # None
                 /\ IsMaxOf(At(trs, i), TrDistances(i))

\* C11: TR[i] is None when high[i], low[i] or close[i] is None; otherwise it
\* is high[i] - low[i] at i = 0 and at every i > 0 whose previous close is
\* None, and the largest of high[i]-low[i], |high[i]-close[i-1]| and
\* |low[i]-close[i-1]| when the previous close is a number.
C11_TrueRange ==
    Past("tr") =>
        /\ Len(trs) = Len(highs)
        /\ \A i \in 0..(Len(highs) - 1) :
               IF ~BarComplete(i) THEN At(trs, i) = None
               ELSE IF i = 0 \/ At(closes, i - 1) = None
                    THEN At(trs, i) = FSub(At(highs, i), At(lows, i))
                    ELSE IsMaxOf(At(trs, i), TrDistances(i))

C11_Witness ==
    /\ pc = "done" /\ Len(trs) = 2
    /\ closes[1] = None /\ trs[1] = None
    /\ highs[2] = Num(9) /\ lows[2] = Num(4) /\ closes[2] = Num(10)
    /\ trs[2] = Num(5)

\* every True Range at the positions lo..hi is a number
TrsPresent(lo, hi) == \A j \in lo..hi : At(trs, j) # None

\* the last position of the list of True Ranges
LastTr == Len(trs) - 1

\* C12: with the SMA method and a window K >= 1, ATR[i] is None for i < K-1;
\* for i >= K-1 it is the mean of TR over i-K+1..i when all K are present and
\* None otherwise.  A missing TR[p] makes every ATR[i] with p <= i <= p+K-1
\* None, and from i = p+K on ATR[i] is a number again whenever the K True
\* Ranges of its window are present.
C12_AtrSma ==
    (Past("atr") /\ atr_method = "sma" /\ atr_window >= 1) =>
        /\ Len(atrs) = Len(trs)
        /\ \A i \in 0..LastTr :
               IF i < atr_window - 1
               THEN At(atrs, i) = None
               ELSE IF TrsPresent(i - atr_window + 1, i)
                    THEN FMul(At(atrs, i), Num(atr_window))
                             = SumOver(trs, (i - atr_window + 1)..i)
                    ELSE At(atrs, i) = None
        /\ \A p \in 0..LastTr : At(trs, p) = None =>
               /\ \A i \in p..Min2(p + atr_window - 1, LastTr) :
                      At(atrs, i) = None
               /\ \A i \in (p + atr_window)..LastTr :
                      TrsPresent(i - atr_window + 1, i) => At(atrs, i) # None

C12_Witness ==
    /\ pc = "done" /\ atr_method = "sma" /\ atr_window = 2 /\ Len(trs) = 5
    /\ trs[3] = None /\ \A k \in {1, 2, 4, 5} : trs[k] # None
    /\ atrs[2] # None /\ atrs[3] = None /\ atrs[4] = None /\ atrs[5] # None
    /\ atrs[5] # trs[5]

\* C13: with the Wilder method and a window K >= 1, ATR[i] is None for
\* i < K-1; ATR[K-1] is the mean of the first K True Ranges when all are
\* present and None otherwise; for i > K-1, ATR[i] is
\* (ATR[i-1]*(K-1) + TR[i]) / K when TR[i] and ATR[i-1] are both present, and
\* None otherwise.
C13_AtrWilder ==
    (Past("atr") /\ atr_method = "wilder" /\ atr_window >= 1) =>
        /\ Len(atrs) = Len(trs)
        /\ \A i \in 0..LastTr :
               IF i < atr_window - 1
               THEN At(atrs, i) = None
               ELSE IF i = atr_window - 1
               THEN IF TrsPresent(0, i)
                    THEN FMul(At(atrs, i), Num(atr_window)) = SumOver(trs, 0..i)
                    ELSE At(atrs, i) = None
               ELSE IF At(trs, i) # None /\ At(atrs, i - 1) # None
                    THEN FMul(At(atrs, i), Num(atr_window))
                             = FAdd(FMul(At(atrs, i - 1), Num(atr_window - 1)),
                                    At(trs, i))
                    ELSE At(atrs, i) = None

C13_Witness ==
    /\ pc = "done" /\ atr_method = "wilder" /\ atr_window = 3 /\ Len(trs) = 5
    /\ \A k \in 1..5 : trs[k] # None
    /\ atrs[2] = None /\ atrs[3] # None
    /\ atrs[4] # atrs[3] /\ atrs[5] # atrs[4] /\ atrs[5] # None

\* C14: with the Wilder method a missing TR[p] makes ATR[i] None for every
\* i >= p; and once ATR is None at some i >= K-1 it is None at every later
\* position, however many True Ranges follow.
C14_WilderNeverReseeds ==
    (Past("atr") /\ atr_method = "wilder") =>
        /\ \A p \in 0..LastTr : At(trs, p) = None =>
               \A i \in p..LastTr : At(atrs, i) = None
        /\ \A i \in 0..LastTr : (i >= atr_window - 1 /\ At(atrs, i) = None) =>
               \A j \in i..LastTr : At(atrs, j) = None

C14_Witness ==
    /\ pc = "done" /\ atr_method = "wilder" /\ atr_window = 2 /\ Len(trs) = 5
    /\ trs[3] = None /\ \A k \in {1, 2, 4, 5} : trs[k] # None
    /\ atrs[2] # None /\ atrs[3] = None /\ atrs[4] = None /\ atrs[5] = None

\* the True Ranges handed to the method not chosen: all of them on a short
\* series, those up to the seed position on the long fixtures, where the
\* fractions of the Wilder chain outgrow 32-bit integers
SeedRanges ==
    IF Len(trs) <= MaxLen + 3 THEN trs ELSE PySlice(trs, 0, atr_window)

\* the ATR list that the method not chosen gives on the same True Ranges
OtherAtrs ==
    IF atr_method = "sma" THEN _calculate_atr_wilder(SeedRanges, atr_window).val
    ELSE _calculate_atr_sma(SeedRanges, atr_window).val

\* C15 as stated: on a series of at least K bars the two methods give None
\* at every i < K-1 and the same number at i = K-1.
C15_SharedSeedAsStated ==
    (Past("atr") /\ KnownMethod /\ atr_window >= 1 /\ Len(trs) >= atr_window) =>
        /\ \A i \in 0..(atr_window - 2) :
               At(atrs, i) = None /\ At(OtherAtrs, i) = None
        /\ At(atrs, atr_window - 1) # None
        /\ At(atrs, atr_window - 1) = At(OtherAtrs, atr_window - 1)

\* C15: on a series of at least K bars (K >= 1) the two methods give None at
\* every i < K-1 and the same value at i = K-1: the mean of the first K True
\* Ranges when all of them are present, None for both when one is missing.
C15_SharedSeed ==
    (Past("atr") /\ KnownMethod /\ atr_window >= 1 /\ Len(trs) >= atr_window) =>
        /\ \A i \in 0..(atr_window - 2) :
               At(atrs, i) = None /\ At(OtherAtrs, i) = None
        /\ At(atrs, atr_window - 1) = At(OtherAtrs, atr_window - 1)
        /\ (At(atrs, atr_window - 1) # None) <=> TrsPresent(0, atr_window - 1)
        /\ TrsPresent(0, atr_window - 1) =>
               FMul(At(atrs, atr_window - 1), Num(atr_window))
                   = SumOver(trs, 0..(atr_window - 1))

C15_Witness ==
    /\ pc = "done" /\ atr_method = "wilder" /\ atr_window = 2 /\ Len(trs) = 3
    /\ trs[1] # None /\ trs[2] # None /\ trs[3] # None /\ trs[1] # trs[2]
    /\ atrs[1] = None /\ atrs[2] # None
    /\ atrs[2] = OtherAtrs[2] /\ atrs[3] # OtherAtrs[3]

\* the positions of the window of the w bars before i that hold a value
PriorPresent(col, w, i) ==
    {j \in 0..(Len(col) - 1) : j >= Max2(0, i - w) /\ j <= i - 1 /\ At(col, j) # None}

\* the values of col at the positions S
ValuesAt(col, S) == {At(col, j) : j \in S}

\* x is the prior-w high of col at position i
IsPrevHigh(x, col, w, i) ==
    IF i = 0 \/ PriorPresent(col, w, i) = {} THEN x = None
    ELSE IsMaxOf(x, ValuesAt(col, PriorPresent(col, w, i)))

\* x is the prior-w low of col at position i
IsPrevLow(x, col, w, i) ==
    IF i = 0 \/ PriorPresent(col, w, i) = {} THEN x = None
    ELSE IsMinOf(x, ValuesAt(col, PriorPresent(col, w, i)))

\* the list col with another value x at position i
WithAt(col, i, x) == [col EXCEPT ![i + 1] = x]

\* C16: prev_high[0] and prev_low[0] are None; for i >= 1, prev_high[i] is the
\* largest high and prev_low[i] the smallest low present at max(0, i-W)..i-1,
\* None when none is present; the value at i is the same whatever high[i] or
\* low[i] is.
C16_PrevHighLowExcludesCurrent ==
    Past("prev_low") =>
        /\ Len(prev_highs) = Len(highs) /\ Len(prev_lows) = Len(lows)
        /\ At(prev_highs, 0) = None /\ At(prev_lows, 0) = None
        /\ \A i \in 0..(Len(highs) - 1) :
               /\ IsPrevHigh(At(prev_highs, i), highs, prev_hl_window, i)
               /\ IsPrevLow(At(prev_lows, i), lows, prev_hl_window, i)
               /\ \A x \in {None, Num(0), Num(100)} :
                      /\ PrevHighLowAt(WithAt(highs, i, x), prev_hl_window, TRUE, i)
                             = At(prev_highs, i)
                      /\ PrevHighLowAt(WithAt(lows, i, x), prev_hl_window, FALSE, i)
                             = At(prev_lows, i)

C16_Witness ==
    /\ pc = "done" /\ prev_hl_window = 1
    /\ highs = <<Num(8), Num(5), Num(6)>> /\ lows = <<Num(2), Num(1), None>>
    /\ prev_highs = <<None, Num(8), Num(5)>>
    /\ prev_lows = <<None, Num(2), Num(1)>>

\* the fields of TushareDailyItem
RawFields ==
    {"ts_code", "trade_date", "open", "high", "low", "close", "pre_close",
     "change", "pct_chg", "vol", "amount"}

\* how many times the record x occurs in the list s
Occurrences(s, x) == Cardinality({k \in 1..Len(s) : s[k] = x})

\* s is the list t in ascending order of trade_date
IsDateSorted(s, t) ==
    /\ Len(s) = Len(t)
    /\ \A k \in 1..(Len(s) - 1) : ~StrLt(s[k + 1].trade_date, s[k].trade_date)
    /\ \A j \in 1..Len(t) : Occurrences(s, t[j]) = Occurrences(t, t[j])

\* C17: output[i] carries the eleven fields of the i-th bar of the date-sorted
\* input unchanged, together with the derived values computed for position i,
\* and no other field.
C17_AssemblyIndexAligned ==
    pc = "done" =>
        /\ IsDateSorted(sorted_items, items)
        /\ Len(enhanced_items) = Len(sorted_items)
        /\ \A k \in 1..Len(sorted_items) :
               /\ DOMAIN enhanced_items[k] = RawFields \cup DerivedFields
               /\ DOMAIN sorted_items[k] = RawFields
               /\ \A f \in RawFields : enhanced_items[k][f] = sorted_items[k][f]
               /\ enhanced_items[k].avg_vol_20 = avg_vols[k]
               /\ enhanced_items[k].vol_ratio_20 = vol_ratios[k]
               /\ enhanced_items[k].ma20
                      = IF 20 \in DOMAIN mas THEN mas[20][k] ELSE None
               /\ enhanced_items[k].ma60
                      = IF 60 \in DOMAIN mas THEN mas[60][k] ELSE None
               /\ enhanced_items[k].atr14 = atrs[k]
               /\ enhanced_items[k].prev_high_20 = prev_highs[k]
               /\ enhanced_items[k].prev_low_20 = prev_lows[k]

C17_Witness ==
    /\ pc = "done" /\ Len(items) = 3
    /\ items[1].trade_date = Day(3) /\ items[3].trade_date = Day(1)
    /\ enhanced_items[1].close = items[3].close
    /\ enhanced_items[1].close # enhanced_items[3].close
    /\ enhanced_items[1].avg_vol_20 # enhanced_items[3].avg_vol_20
    /\ enhanced_items[3].prev_high_20 # None
    /\ enhanced_items[3].amount # None

\* C18: no step of the call changes the caller's list, whether the call
\* returns or raises; and a returned record is never one of the caller's
\* records: it holds the derived fields as well.
C18_InputNotModified ==
    /\ [][items' = items]_vars
    /\ [](pc = "done" =>
             \A k \in 1..Len(enhanced_items), j \in 1..Len(items) :
                 DOMAIN enhanced_items[k] # DOMAIN items[j])

C18_Witness ==
    /\ pc = "done" /\ Len(items) = 3
    /\ items # sorted_items
    /\ items[1].trade_date = Day(2) /\ items[2].trade_date = Day(2)
    /\ items[3].trade_date = Day(1)

\* x is the n-bar moving average of col at position i
IsMa(x, col, n, i) ==
    IF i < n - 1 THEN x = None
    ELSE IF \A j \in (i - n + 1)..i : At(col, j) # None
         THEN x # None /\ FMul(x, Num(n)) = SumOver(col, (i - n + 1)..i)
         ELSE x = None

\* C19: on every row, ma20 is the 20-bar moving average of close when 20 is
\* among the MA windows of the call and None when it is not, and ma60
\* likewise with 60; the other windows of the call have no part in either.
C19_NamedMaOnlyWhenConfigured ==
    pc = "done" =>
        \A i \in 0..(Len(enhanced_items) - 1) :
            /\ IF 20 \in Windows(ma_windows)
               THEN IsMa(At(enhanced_items, i).ma20, closes, 20, i)
               ELSE At(enhanced_items, i).ma20 = None
            /\ IF 60 \in Windows(ma_windows)
               THEN IsMa(At(enhanced_items, i).ma60, closes, 60, i)
               ELSE At(enhanced_items, i).ma60 = None

C19_Witness ==
    /\ pc = "done" /\ Len(items) = 61 /\ ma_windows = <<60, 5>>
    /\ At(enhanced_items, 58).ma60 = None
    /\ At(enhanced_items, 59).ma60 # None
    /\ At(enhanced_items, 60).ma60 # None
    /\ At(enhanced_items, 60).ma20 = None
    /\ At(mas[5], 60) # None

\* x is the average volume of window w at position i
IsAvgVol(x, w, i) ==
    LET present == TrailingPresent(vols, w, i)
    IN  IF present = {} THEN x = None
        ELSE x # None /\ FMul(x, Num(Cardinality(present))) = SumOver(vols, present)

\* x is the volume ratio of the bar e, whose average volume is e.avg_vol_20
IsVolRatio(x, e) ==
    IF e.vol # None /\ e.avg_vol_20 # None /\ e.avg_vol_20[1] > 0
    THEN x # None /\ FMul(x, e.avg_vol_20) = e.vol
    ELSE x = None

\* x is the ATR of window k >= 1 at position i, by the method of the call,
\* prev being the ATR at position i-1
IsAtr(x, prev, k, i) ==
    IF i < k - 1 THEN x = None
    ELSE IF atr_method = "sma"
    THEN IF TrsPresent(i - k + 1, i)
         THEN x # None /\ FMul(x, Num(k)) = SumOver(trs, (i - k + 1)..i)
         ELSE x = None
    ELSE IF i = k - 1
    THEN IF TrsPresent(0, i)
         THEN x # None /\ FMul(x, Num(k)) = SumOver(trs, 0..i)
         ELSE x = None
    ELSE IF At(trs, i) # None /\ prev # None
         THEN x # None
              /\ FMul(x, Num(k)) = FAdd(FMul(prev, Num(k - 1)), At(trs, i))
         ELSE x = None

\* C20: on every returned row avg_vol_20 and vol_ratio_20 are those of
\* vol_window, atr14 is the ATR of atr_window (atr_window >= 1) and
\* prev_high_20 / prev_low_20 are those of prev_hl_window; with
\* prev_hl_window = 5 and no high or low missing, prev_high_20 at index 5 is
\* the largest high, and prev_low_20 the smallest low, of bars 0..4.
C20_FixedNamesFollowWindows ==
    pc = "done" =>
        /\ \A i \in 0..(Len(enhanced_items) - 1) :
               LET e == At(enhanced_items, i)
               IN  /\ IsAvgVol(e.avg_vol_20, vol_window, i)
                   /\ IsVolRatio(e.vol_ratio_20, e)
                   /\ atr_window >= 1 =>
                          IsAtr(e.atr14,
                                IF i = 0 THEN None
                                ELSE At(enhanced_items, i - 1).atr14,
                                atr_window, i)
                   /\ IsPrevHigh(e.prev_high_20, highs, prev_hl_window, i)
                   /\ IsPrevLow(e.prev_low_20, lows, prev_hl_window, i)
        /\ (/\ prev_hl_window = 5 /\ Len(enhanced_items) >= 6
            /\ \A j \in 0..4 : At(highs, j) # None /\ At(lows, j) # None) =>
               /\ IsMaxOf(At(enhanced_items, 5).prev_high_20, ValuesAt(highs, 0..4))
               /\ IsMinOf(At(enhanced_items, 5).prev_low_20, ValuesAt(lows, 0..4))

C20_Witness ==
    /\ pc = "done" /\ Len(items) = 30
    /\ vol_window = 10 /\ atr_window = 7 /\ prev_hl_window = 10
    /\ At(enhanced_items, 29).avg_vol_20 = Num(15500)
    /\ At(enhanced_items, 5).atr14 = None
    /\ At(enhanced_items, 6).atr14 # None
    /\ At(enhanced_items, 29).prev_high_20 # None

C20_WitnessPrevHigh ==
    /\ pc = "done" /\ Len(items) = 30 /\ prev_hl_window = 5
    /\ At(enhanced_items, 5).prev_high_20 = Num(123)
    /\ At(enhanced_items, 5).prev_low_20 = Num(97)

\* the eleven raw fields of the record e
RawOf(e) == [f \in RawFields |-> e[f]]

\* the bars of s dated d, in the order of s
OfDate(s, d) == SelectSeq(s, LAMBDA x : x.trade_date = d)

\* C21: the bars of one trade_date come out in the order the caller gave
\* them, in the sorted list and in the returned list, and the columns the
\* passes read are those of the sorted list.
C21_SortStable ==
    /\ Past("sort") =>
           \A k \in 1..Len(items) :
               OfDate(sorted_items, items[k].trade_date)
                   = OfDate(items, items[k].trade_date)
    /\ Past("extract") =>
           /\ closes = Column(sorted_items, "close")
           /\ highs = Column(sorted_items, "high")
           /\ lows = Column(sorted_items, "low")
           /\ vols = Column(sorted_items, "vol")
    /\ pc = "done" =>
           \A k \in 1..Len(items) :
               OfDate([j \in 1..Len(enhanced_items) |-> RawOf(enhanced_items[j])],
                      items[k].trade_date)
                   = OfDate(items, items[k].trade_date)

C21_Witness ==
    /\ pc = "done" /\ Len(items) = 3
    /\ items[1].trade_date = Day(2) /\ items[2].trade_date = Day(1)
    /\ items[3].trade_date = Day(2)
    /\ items[1].close # items[3].close
    /\ enhanced_items[2].close = items[1].close
    /\ enhanced_items[3].close = items[3].close
    /\ enhanced_items[3].prev_low_20 = items[1].low

\* the caller's list with the field f of bar j set to x
WithField(s, j, f, x) == [s EXCEPT ![j][f] = x]

\* other values for a raw field
OtherValues(f) == IF f = "ts_code" THEN {"600000.SH"} ELSE {None, Num(1)}

\* the columns that the passes compute from the list s (lines 89-101)
AvgVolsOf(s) == _calculate_avg_vol(Column(SortedByDate(s), "vol"), vol_window).val

VolRatiosOf(s) == _calculate_vol_ratio(Column(SortedByDate(s), "vol"), AvgVolsOf(s)).val

AtrsOf(s) ==
    LET t == SortedByDate(s)
    IN  _calculate_atr(Column(t, "high"), Column(t, "low"), Column(t, "close"),
                       atr_window, atr_method).val

PrevHighsOf(s) ==
    _calculate_prev_high_low(Column(SortedByDate(s), "high"), prev_hl_window, TRUE)

PrevLowsOf(s) ==
    _calculate_prev_high_low(Column(SortedByDate(s), "low"), prev_hl_window, FALSE)

\* C22: with the trade dates kept, another value in a raw field of a bar
\* leaves avg_vol and vol_ratio as they are unless the field is vol, every
\* ma_N unless it is close, atr unless it is high, low or close, prev_high
\* unless it is high and prev_low unless it is low, at every position.
C22_PassesReadOwnColumns ==
    pc = "done" =>
        \A j \in 1..Len(items), f \in RawFields \ {"trade_date"} :
            \A x \in OtherValues(f) :
                LET s == WithField(items, j, f, x)
                IN  /\ f # "vol" =>
                           avg_vols = AvgVolsOf(s) /\ vol_ratios = VolRatiosOf(s)
                    /\ f # "close" =>
                           mas = MasOf(Column(SortedByDate(s), "close"), ma_windows).val
                    /\ f \notin {"high", "low", "close"} => atrs = AtrsOf(s)
                    /\ f # "high" => prev_highs = PrevHighsOf(s)
                    /\ f # "low" => prev_lows = PrevLowsOf(s)

C22_Witness ==
    /\ pc = "done" /\ Len(items) = 3
    /\ \A k \in 1..3 : \A f \in {"high", "low", "close", "vol"} : items[k][f] # None
    /\ atrs # AtrsOf(WithField(items, 3, "close", None))
    /\ atrs = AtrsOf(WithField(items, 3, "vol", None))
    /\ prev_highs # PrevHighsOf(WithField(items, 3, "high", Num(1)))
    /\ prev_lows = PrevLowsOf(WithField(items, 3, "high", Num(1)))
    /\ mas # MasOf(Column(SortedByDate(WithField(items, 3, "close", Num(1))), "close"),
                   ma_windows).val
    /\ avg_vols # AvgVolsOf(WithField(items, 3, "vol", Num(1)))

\* the positions whose close is missing
NullCloses == {i \in 0..(Len(closes) - 1) : At(closes, i) = None}

\* C23: at i > 0 with high[i], low[i] and close[i] present and close[i-1]
\* missing, TR[i] = high[i] - low[i]; and when one bar only has no close and
\* every high and low is present, TR is missing at that bar and at no other.
C23_MissingPrevCloseKeepsTrueRange ==
    Past("tr") =>
        /\ \A i \in 1..(Len(highs) - 1) :
               BarComplete(i) /\ At(closes, i - 1) = None
                   => At(trs, i) = FSub(At(highs, i), At(lows, i))
        /\ (/\ Cardinality(NullCloses) = 1
            /\ \A i \in 0..(Len(highs) - 1) : At(highs, i) # None /\ At(lows, i) # None)
               => \A i \in 0..(Len(trs) - 1) : At(trs, i) = None <=> i \in NullCloses

C23_Witness ==
    /\ pc = "done" /\ Len(trs) = 2
    /\ highs = <<Num(9), Num(9)>> /\ lows = <<Num(4), Num(4)>>
    /\ closes = <<None, Num(2)>>
    /\ trs = <<None, Num(5)>>
    /\ enhanced_items[2].atr14 = Num(5)

\* C24: with a volume window W >= 1, at every position a volume that is
\* present has an average volume that is present, and vol_ratio is None
\* exactly when the volume is None or the average volume is not above zero.
C24_VolumePresentHasAverage ==
    Past("vol_ratio") /\ vol_window >= 1 =>
        \A i \in 0..(Len(vols) - 1) :
            /\ At(vols, i) # None => At(avg_vols, i) # None
            /\ At(vol_ratios, i) = None
                   <=> \/ At(vols, i) = None
                       \/ At(avg_vols, i)[1] <= 0

C24_Witness ==
    /\ pc = "done" /\ vol_window = 2 /\ Len(vols) = 3
    /\ vols[1] # None /\ vols[2] = None /\ vols[3] # None
    /\ avg_vols[2] = vols[1] /\ vol_ratios[2] = None
    /\ avg_vols[1][1] > 0 /\ vol_ratios[1] = Num(1)
    /\ avg_vols[3][1] <= 0 /\ vol_ratios[3] = None

\* ------------------------------------------------------------------ Task

\* the longest sequence of calls made on one task
MaxCalls == 4

\* no call of calculate_indicators is in progress
NotCalled ==
    /\ items = <<>>
    /\ ma_windows_none = FALSE
    /\ ma_windows = <<>>
    /\ vol_window = 0
    /\ atr_window = 0
    /\ atr_method = "None"
    /\ prev_hl_window = 0
    /\ pc = "None"
    /\ sorted_items = <<>>
    /\ closes = <<>>
    /\ highs = <<>>
    /\ lows = <<>>
    /\ vols = <<>>
    /\ avg_vols = <<>>
    /\ vol_ratios = <<>>
    /\ mas = <<>>
    /\ trs = <<>>
    /\ atrs = <<>>
    /\ prev_highs = <<>>
    /\ prev_lows = <<>>
    /\ enhanced_items = <<>>
    /\ raised = NoException

\* the variables of calculate_indicators
indicators_vars ==
    <<items, ma_windows_none, ma_windows, vol_window, atr_window, atr_method,
      prev_hl_window, pc, sorted_items, closes, highs, lows, vols, avg_vols,
      vol_ratios, mas, trs, atrs, prev_highs, prev_lows, enhanced_items, raised>>

\* the writer argument of a call and of the constructor: absent or given
Writers == {"None", "writer"}

\* the result argument of finish
Results == {"success", "error"}

\* the order of the states in the header of task.py: new -> running -> complete
States == <<"new", "running", "complete">>

\* the message built from the task: TaskData(state=self.state), with result
\* set when self.result is truthy; name, run_id and data are carried as given
TaskData(state_, result_) ==
    [state |-> state_, result |-> IF result_ # "None" THEN result_ ELSE "None"]

\* Task.__init__
Task(writer_) ==
    /\ writer = writer_
    /\ state = "new"
    /\ result = "None"
    /\ dispatched = <<>>
    /\ task_returned = "None"
    /\ task_call = "None"
    /\ task_calls = 0

\* _generate_and_dispatch_message on the task as the caller has just set it:
\* the message goes to the call's writer or else the task's, when there is one
_generate_and_dispatch_message(writer_, state_, result_) ==
    LET w == IF writer_ # "None" THEN writer_ ELSE writer
        task_data == TaskData(state_, result_)
    IN  /\ dispatched' = IF w # "None" THEN Append(dispatched, task_data)
                         ELSE dispatched
        /\ task_returned' = Returned(task_data)

\* Task.start
start ==
    /\ task_calls < MaxCalls
    /\ task_calls' = task_calls + 1
    /\ task_call' = "start"
    /\ \E w \in Writers :
           /\ state' = "new"
           /\ _generate_and_dispatch_message(w, "new", result)
    /\ UNCHANGED <<indicators_vars, scheduler_vars, executor_vars, writer, result>>

\* write_data without the check of line 50
write_dataUnguarded ==
    /\ task_calls < MaxCalls
    /\ task_calls' = task_calls + 1
    /\ task_call' = "write_data"
    /\ \E w \in Writers :
           /\ state' = "running"
           /\ _generate_and_dispatch_message(w, "running", result)
    /\ UNCHANGED <<indicators_vars, scheduler_vars, executor_vars, writer, result>>

\* Task.write_data
write_data ==
    /\ task_calls < MaxCalls
    /\ task_calls' = task_calls + 1
    /\ task_call' = "write_data"
    /\ \E w \in Writers :
           IF state = "complete"
           THEN /\ task_returned' = Raised("ValueError")
                /\ UNCHANGED <<state, dispatched>>
           ELSE /\ state' = "running"
                /\ _generate_and_dispatch_message(w, "running", result)
    /\ UNCHANGED <<indicators_vars, scheduler_vars, executor_vars, writer, result>>

\* Task.finish
finish ==
    /\ task_calls < MaxCalls
    /\ task_calls' = task_calls + 1
    /\ task_call' = "finish"
    /\ \E r \in Results, w \in Writers :
           /\ state' = "complete"
           /\ result' = r
           /\ _generate_and_dispatch_message(w, "complete", r)
    /\ UNCHANGED <<indicators_vars, scheduler_vars, executor_vars, writer>>

\* a task is built, with or without a writer
TaskInit ==
    /\ NotCalled
    /\ NoScheduler
    /\ \E w \in Writers : Task(w)

TaskNext ==
    \/ start
    \/ write_data
    \/ finish

TaskSpec == TaskInit /\ [][TaskNext]_vars

\* the place of a state in the order new -> running -> complete
StateRank(s) == CHOOSE k \in 1..Len(States) : States[k] = s

\* C25: under every sequence of start(), write_data() and finish() calls the
\* state of a Task only moves forward along new -> running -> complete: no
\* call takes it from 'complete' or 'running' to an earlier state.
C25_StateOnlyMovesForward == [][StateRank(state') >= StateRank(state)]_vars

\* a step that is a call of write_data
IsWriteData == task_calls' = task_calls + 1 /\ task_call' = "write_data"

\* C26: write_data on a task whose state is 'complete' raises ValueError,
\* dispatches no message and leaves state and result as they are; on a task
\* in state 'new' or 'running' it sets the state to 'running'.
C26_WriteDataRefusedWhenComplete ==
    [][IsWriteData =>
          IF state = "complete"
          THEN /\ task_returned'.exc = "ValueError"
               /\ dispatched' = dispatched
               /\ state' = state
               /\ result' = result
          ELSE /\ state \in {"new", "running"}
               /\ state' = "running"
               /\ task_returned'.exc = NoException]_vars

C26_Witness ==
    /\ task_call = "write_data"
    /\ task_returned.exc = "ValueError"
    /\ state = "complete" /\ result = "error"
    /\ Len(dispatched) = 2
    /\ dispatched[1].state = "running"
    /\ dispatched[2] = TaskData("complete", "error")

\* C27: in every reachable state of a Task, result is set exactly when the
\* state is 'complete', and no dispatched message carries a result together
\* with the state 'new' or 'running'.
C27_ResultOnlyWhenComplete ==
    /\ result # "None" <=> state = "complete"
    /\ \A k \in 1..Len(dispatched) :
           dispatched[k].result # "None" => dispatched[k].state = "complete"

\* --------------------------------------------------------- TaskScheduler

\* the longest list of tasks in a configuration file
MaxTasks == 2

TaskNames == {"a", "b"}

\* a cron expression is kept as the list of its fields (v.split()): one that
\* CronTrigger.from_crontab accepts, one of five fields that it rejects and
\* one that is not of five fields
GoodCron == <<"0", "9", "*", "*", "*">>

BadCrontab == <<"x", "x", "x", "x", "x">>

BadFields == <<"daily">>

\* class TaskConfig; description and parameters are carried as given
TaskConfig(name, enabled, cron, prompt) ==
    [name |-> name, enabled |-> enabled, cron |-> cron, agent |-> "trading-agent",
     prompt |-> prompt, model |-> "gpt-4o"]

\* the entries of the files: each task enabled and disabled, one of them
\* with a second prompt, one with a crontab that cannot be parsed and one
\* with a cron of the wrong number of fields
TaskConfigs ==
    {TaskConfig(n, e, GoodCron, "/e_v1") : n \in TaskNames, e \in BOOLEAN}
        \cup {TaskConfig("a", TRUE, GoodCron, "/e_v2"),
              TaskConfig("b", TRUE, BadCrontab, "/e_v1"),
              TaskConfig("a", TRUE, BadFields, "/e_v1")}

\* the file at config_path: absent, or a list of tasks, names repeated or not
ConfigFiles ==
    {[exists |-> FALSE, tasks |-> <<>>]}
        \cup {[exists |-> TRUE, tasks |-> t] :
                 t \in UNION {[1..n -> TaskConfigs] : n \in 0..MaxTasks}}

\* TaskConfig._validate_cron
_validate_cron(v) == Len(v) = 5

\* load_scheduler_config: the tasks of the file, or the exception raised
load_scheduler_config(f) ==
    IF ~f.exists THEN Raised("FileNotFoundError")
    ELSE IF \E k \in 1..Len(f.tasks) : ~_validate_cron(f.tasks[k].cron)
    THEN Raised("ValidationError")
    ELSE Returned(f.tasks)

\* CronTrigger.from_crontab accepts numbers and "*" in each of the fields
from_crontab(cron) == \A k \in 1..Len(cron) : cron[k] \in {"*", "0", "9"}

\* job_id = f"task::{task.name}"
JobId(name) == "task::" \o name

\* the kwargs handed to add_job and to execute
Kwargs(task) ==
    [task_name |-> task.name, agent_id |-> task.agent, prompt |-> task.prompt,
     model_name |-> task.model]

\* the job that add_job builds
Job(task) == [id |-> JobId(task.name), trigger |-> task.cron, kwargs |-> Kwargs(task)]

TaskRuntime(task) == [config |-> task, job_id |-> JobId(task.name)]

\* self._scheduler.get_job / remove_job / add_job(replace_existing=True)
get_job(jobs_, job_id) == {j \in jobs_ : j.id = job_id}

remove_job(jobs_, job_id) == {j \in jobs_ : j.id # job_id}

add_job(jobs_, job) == {j \in jobs_ : j.id # job.id} \cup {job}

\* the registry of a scheduler: _tasks, the jobs of _scheduler, and the
\* exception that left the method at work, if any
Registry(tasks_, jobs_) == [tasks |-> tasks_, jobs |-> jobs_, exc |-> NoException]

\* TaskScheduler._add_or_update_job
_add_or_update_job(st, task) ==
    IF ~from_crontab(task.cron) THEN [st EXCEPT !.exc = "ValueError"]
    ELSE LET job_id == JobId(task.name)
             cleared == IF get_job(st.jobs, job_id) # {}
                        THEN remove_job(st.jobs, job_id)
                        ELSE st.jobs
         IN  [tasks |-> (task.name :> TaskRuntime(task)) @@ st.tasks,
              jobs |-> add_job(cleared, Job(task)),
              exc |-> st.exc]

\* TaskScheduler._remove_job
_remove_job(st, task_name) ==
    LET found == task_name \in DOMAIN st.tasks
        job_id == st.tasks[task_name].job_id
    IN  [tasks |-> [n \in DOMAIN st.tasks \ {task_name} |-> st.tasks[n]],
         jobs |-> IF found /\ get_job(st.jobs, job_id) # {}
                  THEN remove_job(st.jobs, job_id)
                  ELSE st.jobs,
         exc |-> st.exc]

\* the tasks of cfg that are enabled, in the order of the file
Enabled(cfg) == SelectSeq(cfg, LAMBDA t : t.enabled)

\* {t.name: t for t in cfg.scheduler.tasks if t.enabled}, as the list of its
\* values: a key keeps the place of its first entry and the value of its last
new_enabled(cfg) ==
    LET en == Enabled(cfg)
        first == SelectSeq([k \in 1..Len(en) |-> k],
                           LAMBDA k : \A j \in 1..(k - 1) : en[j].name # en[k].name)
        last(n) == CHOOSE j \in 1..Len(en) :
                       /\ en[j].name = n
                       /\ \A i \in (j + 1)..Len(en) : en[i].name # n
    IN  [p \in 1..Len(first) |-> en[last(en[first[p]].name)]]

\* "for task in ...: self._add_or_update_job(task)" from position k on; an
\* exception ends the loop
RECURSIVE AddOrUpdateAll(_, _, _)
AddOrUpdateAll(st, tasks_, k) ==
    IF k > Len(tasks_) \/ st.exc # NoException THEN st
    ELSE AddOrUpdateAll(_add_or_update_job(st, tasks_[k]), tasks_, k + 1)

\* "for name in list(existing - set(new_enabled.keys())): self._remove_job(name)"
RECURSIVE RemoveAll(_, _)
RemoveAll(st, names) ==
    IF names = {} THEN st
    ELSE LET name == CHOOSE n \in names : TRUE
         IN  RemoveAll(_remove_job(st, name), names \ {name})

\* TaskScheduler.load_config on the file f
load_config(st, f) ==
    LET cfg == load_scheduler_config(f)
    IN  IF cfg.exc # NoException THEN [st EXCEPT !.exc = cfg.exc]
        ELSE AddOrUpdateAll(st, Enabled(cfg.val), 1)

\* the reload without the loop that removes the disabled and deleted tasks
reload_configKeepingRemoved(st, f) ==
    LET cfg == load_scheduler_config(f)
    IN  IF cfg.exc # NoException THEN [st EXCEPT !.exc = cfg.exc]
        ELSE AddOrUpdateAll(st, new_enabled(cfg.val), 1)

\* TaskScheduler.reload_config on the file f
reload_config(st, f) ==
    LET cfg == load_scheduler_config(f)
    IN  IF cfg.exc # NoException THEN [st EXCEPT !.exc = cfg.exc]
        ELSE LET enabled == new_enabled(cfg.val)
                 existing == DOMAIN st.tasks
                 kept == {enabled[k].name : k \in 1..Len(enabled)}
             IN  AddOrUpdateAll(RemoveAll(st, existing \ kept), enabled, 1)

\* the executions that can be in progress at once: one per job
\* (max_instances=1) and the one of trigger_task, run under self._lock
Slots == {JobId(n) : n \in TaskNames} \cup {"trigger_task"}

\* no execution in a slot
NoRun == [pc |-> "idle", task_name |-> "None", exc |-> NoException]

\* the call of a method of the scheduler on the file f, st being what it leaves
Scheduled(call, f, st) ==
    /\ _tasks' = st.tasks
    /\ jobs' = st.jobs
    /\ config' = IF load_scheduler_config(f).exc = NoException THEN f.tasks ELSE config
    /\ scheduler_call' = call
    /\ scheduler_returned' = IF st.exc = NoException THEN Returned(<<>>) ELSE Raised(st.exc)

\* TaskScheduler.__init__ with the file f at config_path: it ends with
\* reload_config, and the scheduler exists when that returns
TaskScheduler(f) ==
    LET st == reload_config(Registry(<<>>, {}), f)
    IN  /\ st.exc = NoException
        /\ _tasks = st.tasks
        /\ jobs = st.jobs
        /\ config = f.tasks
        /\ scheduler_call = "__init__"
        /\ scheduler_returned = Returned(<<>>)
        /\ records = <<>>
        /\ runs = [s \in Slots |-> NoRun]

\* the initial load, taken under self._lock
LoadConfig ==
    /\ runs["trigger_task"].pc = "idle"
    /\ \E f \in ConfigFiles :
           Scheduled("load_config", f, load_config(Registry(_tasks, jobs), f))
    /\ UNCHANGED <<indicators_vars, task_vars, executor_vars>>

\* the hot reload, taken under self._lock
ReloadConfig ==
    /\ runs["trigger_task"].pc = "idle"
    /\ \E f \in ConfigFiles :
           Scheduled("reload_config", f, reload_config(Registry(_tasks, jobs), f))
    /\ UNCHANGED <<indicators_vars, task_vars, executor_vars>>

SchedulerInit ==
    /\ NotCalled
    /\ NoTask
    /\ \E f \in ConfigFiles : TaskScheduler(f)

SchedulerNext ==
    \/ LoadConfig
    \/ ReloadConfig

SchedulerSpec == SchedulerInit /\ [][SchedulerNext]_vars

\* the names of the enabled tasks of the configuration cfg
EnabledNames(cfg) == {cfg[k].name : k \in {j \in 1..Len(cfg) : cfg[j].enabled}}

\* the configuration of the enabled task n in cfg: its last enabled entry
CurrentConfig(cfg, n) ==
    cfg[CHOOSE k \in 1..Len(cfg) :
            /\ cfg[k].name = n /\ cfg[k].enabled
            /\ \A j \in (k + 1)..Len(cfg) : ~(cfg[j].name = n /\ cfg[j].enabled)]

\* C28: after a reload_config that completed, the registered tasks are the
\* enabled tasks of the configuration just loaded: no other task has an entry
\* or a job, and each enabled task has one entry and exactly one job, of id
\* "task::<name>", with the cron and the kwargs of its current configuration.
C28_ReloadRegistersEnabledTasks ==
    scheduler_call = "reload_config" /\ scheduler_returned.exc = NoException =>
        /\ DOMAIN _tasks = EnabledNames(config)
        /\ {j.id : j \in jobs} = {JobId(n) : n \in EnabledNames(config)}
        /\ \A n \in EnabledNames(config) :
               LET task == CurrentConfig(config, n)
               IN  /\ _tasks[n].config = task
                   /\ _tasks[n].job_id = "task::" \o n
                   /\ Cardinality({j \in jobs : j.id = "task::" \o n}) = 1
                   /\ \A j \in jobs : j.id = "task::" \o n =>
                          /\ j.trigger = task.cron
                          /\ j.kwargs.task_name = n
                          /\ j.kwargs.agent_id = task.agent
                          /\ j.kwargs.prompt = task.prompt
                          /\ j.kwargs.model_name = task.model

C28_Witness ==
    /\ scheduler_call = "reload_config" /\ scheduler_returned.exc = NoException
    /\ config = <<TaskConfig("b", FALSE, GoodCron, "/e_v1"),
                  TaskConfig("a", TRUE, GoodCron, "/e_v2")>>
    /\ DOMAIN _tasks = {"a"}
    /\ _tasks["a"].config.prompt = "/e_v2"
    /\ Cardinality(jobs) = 1

\* --------------------------------------------------------- AgentExecutor

\* datetime.utcnow(): some time, as opposed to None
utcnow == "datetime"

\* ExecutionRecord(): the defaults of the dataclass
ExecutionRecord ==
    [started_at |-> "None", finished_at |-> "None", status |-> "idle",
     error |-> "None", result_preview |-> "None"]

\* self.records after get_record(task_name): setdefault adds a fresh record
get_record(records_, task_name) ==
    IF task_name \in DOMAIN records_ THEN records_
    ELSE (task_name :> ExecutionRecord) @@ records_

\* the content of the last event of the agent: none or a text
Contents == {"None", "report"}

\* str(e) of the exception caught at line 119
Errors == {"agent failed"}

\* the files of the schedulers whose executions are followed: one task
\* enabled and the other disabled, and both enabled
ExecutorFiles ==
    {[exists |-> TRUE,
      tasks |-> <<TaskConfig("a", TRUE, GoodCron, "/e_v1"),
                  TaskConfig("b", e, GoodCron, "/e_v1")>>] : e \in BOOLEAN}

\* aexecute up to the await of line 97, for the execution in slot s: lines 75-80
Begin(s, kwargs) ==
    /\ runs[s].pc = "idle"
    /\ records' = [get_record(records, kwargs.task_name) EXCEPT
                      ![kwargs.task_name] =
                          [started_at |-> utcnow, finished_at |-> "None",
                           status |-> "running", error |-> "None",
                           result_preview |-> "None"]]
    /\ runs' = [runs EXCEPT ![s] = [pc |-> "ainvoke", task_name |-> kwargs.task_name,
                                    exc |-> NoException]]

\* the scheduler fires a job: execute(**kwargs) on a worker thread, unless an
\* instance of the job is still running (max_instances=1)
CronFire ==
    /\ \E j \in jobs : Begin(j.id, j.kwargs)
    /\ UNCHANGED <<indicators_vars, task_vars, scheduler_vars>>

\* TaskScheduler.trigger_task, under self._lock: it raises for a task that is
\* not registered, and else runs execute in the calling thread
trigger_task ==
    /\ runs["trigger_task"].pc = "idle"
    /\ \E task_name \in TaskNames :
           IF task_name \notin DOMAIN _tasks
           THEN /\ scheduler_call' = "trigger_task"
                /\ scheduler_returned' = Raised("ValueError")
                /\ UNCHANGED <<config, _tasks, jobs, executor_vars>>
           ELSE /\ Begin("trigger_task", Kwargs(_tasks[task_name].config))
                /\ UNCHANGED scheduler_vars
    /\ UNCHANGED <<indicators_vars, task_vars>>

\* the agent call returns: lines 97-118
AgentReturns ==
    /\ \E s \in Slots, content \in Contents :
           /\ runs[s].pc = "ainvoke"
           /\ records' = [records EXCEPT
                             ![runs[s].task_name].status = "success",
                             ![runs[s].task_name].result_preview =
                                 IF content # "None" THEN content ELSE ""]
           /\ runs' = [runs EXCEPT ![s].pc = "finally"]
    /\ UNCHANGED <<indicators_vars, task_vars, scheduler_vars>>

\* get_agent, _resolve_model or the agent call raises an Exception: lines
\* 119-121
AgentRaises ==
    /\ \E s \in Slots, e \in Errors :
           /\ runs[s].pc = "ainvoke"
           /\ records' = [records EXCEPT
                             ![runs[s].task_name].status = "error",
                             ![runs[s].task_name].error = e]
           /\ runs' = [runs EXCEPT ![s].pc = "finally"]
    /\ UNCHANGED <<indicators_vars, task_vars, scheduler_vars>>

\* the await ends with a BaseException that is not an Exception
\* (asyncio.CancelledError, KeyboardInterrupt): "except Exception" does not
\* take it, and it leaves aexecute after the finally clause
AgentCancelled ==
    /\ \E s \in Slots :
           /\ runs[s].pc = "ainvoke"
           /\ runs' = [runs EXCEPT ![s].pc = "finally", ![s].exc = "CancelledError"]
    /\ UNCHANGED <<indicators_vars, task_vars, scheduler_vars, records>>

\* the finally clause, line 123, and the return or the raise of aexecute
Finally ==
    /\ \E s \in Slots :
           /\ runs[s].pc = "finally"
           /\ records' = [records EXCEPT ![runs[s].task_name].finished_at = utcnow]
           /\ runs' = [runs EXCEPT ![s].pc = "idle"]
    /\ UNCHANGED <<indicators_vars, task_vars, scheduler_vars>>

\* a scheduler built from one of the files, no execution made yet
ExecutorInit ==
    /\ NotCalled
    /\ NoTask
    /\ \E f \in ExecutorFiles : TaskScheduler(f)

ExecutorNext ==
    \/ CronFire
    \/ trigger_task
    \/ AgentReturns
    \/ AgentRaises
    \/ AgentCancelled
    \/ Finally

ExecutorSpec == ExecutorInit /\ [][ExecutorNext]_vars

\* the record of the task of the execution in slot s, after the step
RecordAfter(s) == records'[runs'[s].task_name]

\* C29: every aexecute call sets the record of its task to 'running' with
\* finished_at cleared at its start, and at its end the record has status
\* 'success' or 'error' and finished_at set, error is non-null exactly when
\* the status is 'error', and no exception leaves the call.
C29_ExecutionEndsInFinalStatus ==
    [][\A s \in Slots :
          /\ runs[s].pc = "idle" /\ runs'[s].pc = "ainvoke" =>
                 /\ RecordAfter(s).status = "running"
                 /\ RecordAfter(s).finished_at = "None"
          /\ runs[s].pc = "finally" /\ runs'[s].pc = "idle" =>
                 /\ RecordAfter(s).status \in {"success", "error"}
                 /\ RecordAfter(s).finished_at # "None"
                 /\ RecordAfter(s).error # "None" <=> RecordAfter(s).status = "error"
                 /\ runs'[s].exc = NoException]_vars

\* an execution of the task n is in progress: its agent call has not ended
InProgress(n) == \E s \in Slots : runs[s].pc = "ainvoke" /\ runs[s].task_name = n

\* C30: whenever at least one execution of a task is in progress, the record
\* of the task has status 'running' and finished_at null, also when a
\* trigger_task run and a scheduled run of the task overlap.
C30_RecordRunningWhileInProgress ==
    \A n \in TaskNames :
        InProgress(n) =>
            /\ records[n].status = "running"
            /\ records[n].finished_at = "None"

====
